---- MODULE Spec2Model ----
(***************************************************************************)
(* A model of hmux (github.com/cespare/hmux): the Builder's route table,   *)
(* Build, and Mux.ServeHTTP with canonicalization, matching, prefix        *)
(* stripping and parameter merging, translated from src/hmux.go.           *)
(*                                                                         *)
(* Strings are sequences of one-character strings, so that the byte-level  *)
(* operations of the code (splitting, trimming, percent-decoding) are      *)
(* computed and not assumed.  S("/x/y") is <<"/", "x", "/", "y">>.         *)
(***************************************************************************)
EXTENDS Integers, Sequences, FiniteSets, TLC

VARIABLES
    heap,     \* the matcher objects, by address: b.matchers and m.matchers hold addresses
    maps,     \* the byMethod map objects, by address (a Go map is a reference)
    bld,      \* the Builder's matchers slice, a sequence of addresses
    regs,     \* history: the bindings the Builder accepted, in order
    muxes,    \* the Muxes built so far: each a sequence of addresses
    muxRegs,  \* history: muxRegs[m] is regs at the Build that made Mux m
    last,     \* the last registration call: which method of the Builder, and its error
    req,      \* the request being served
    resp,     \* the outcome of the last ServeHTTP
    hops,     \* how many redirects the client has followed for req
    flights,  \* the requests served concurrently, one goroutine each: its position
    objs      \* the Params objects of the requests in flight, by address

vars == <<heap, maps, bld, regs, muxes, muxRegs, last, req, resp, hops, flights, objs>>

-----------------------------------------------------------------------------
(* Strings *)

S(str) == [i \in 1..Len(str) |-> SubSeq(str, i, i)]

AsciiLow == S(" !\"#$%&'()*+,-./0123456789:;<=>?@ABCDEFGHIJKLMNOPQRSTUVWXYZ[\\]^_")

AsciiHigh == S("abcdefghijklmnopqrstuvwxyz{|}~")

\* The byte n as a character; a byte without a printable form gets a name of its own.
Chr(n) ==
    IF n \in 32..95 THEN AsciiLow[n - 31]
    ELSE IF n \in 97..126 THEN AsciiHigh[n - 96]
    ELSE "\\" \o ToString(n)

OrdTable == [c \in {Chr(n) : n \in 0..255} |-> CHOOSE n \in 0..255 : Chr(n) = c]

Ord(c) == OrdTable[c]

HexDigits == S("0123456789ABCDEF")

ishex(c) == c \in {HexDigits[i] : i \in 1..16} \cup {"a", "b", "c", "d", "e", "f"}

unhex(c) ==
    IF c \in {"a", "b", "c", "d", "e", "f"}
    THEN Ord(c) - Ord("a") + 10
    ELSE (CHOOSE i \in 1..16 : HexDigits[i] = c) - 1

Drop(s, n) == SubSeq(s, n + 1, Len(s))

Take(s, n) == SubSeq(s, 1, n)

HasPrefix(s, pre) == Len(s) >= Len(pre) /\ Take(s, Len(pre)) = pre

HasSuffix(s, suf) == Len(s) >= Len(suf) /\ Drop(s, Len(s) - Len(suf)) = suf

TrimPrefix(s, pre) == IF HasPrefix(s, pre) THEN Drop(s, Len(pre)) ELSE s

TrimSuffix(s, suf) == IF HasSuffix(s, suf) THEN Take(s, Len(s) - Len(suf)) ELSE s

\* strings.Contains
Contains(s, sub) == \E i \in 0..(Len(s) - Len(sub)) : SubSeq(s, i + 1, i + Len(sub)) = sub

\* strings.IndexByte: 0-based, -1 when absent
IndexByte(s, c) ==
    IF \E i \in 1..Len(s) : s[i] = c
    THEN (CHOOSE i \in 1..Len(s) : s[i] = c /\ \A j \in 1..(i - 1) : s[j] # c) - 1
    ELSE -1

\* strings.Split(s, "/"): always at least one element
RECURSIVE Split(_, _)
Split(s, c) ==
    LET i == IndexByte(s, c)
    IN  IF i < 0 THEN <<s>> ELSE <<Take(s, i)>> \o Split(Drop(s, i + 1), c)

\* strings.Join
RECURSIVE Join(_, _)
Join(parts, sep) ==
    IF Len(parts) = 0 THEN <<>>
    ELSE IF Len(parts) = 1 THEN parts[1]
    ELSE parts[1] \o sep \o Join(Tail(parts), sep)

\* strings.Compare: bytewise lexicographic, -1 / 0 / 1
RECURSIVE StrCompare(_, _)
StrCompare(a, b) ==
    IF Len(a) = 0 /\ Len(b) = 0 THEN 0
    ELSE IF Len(a) = 0 THEN -1
    ELSE IF Len(b) = 0 THEN 1
    ELSE IF a[1] = b[1] THEN StrCompare(Tail(a), Tail(b))
    ELSE IF Ord(a[1]) < Ord(b[1]) THEN -1 ELSE 1

\* trimSuffix of hmux.go: the trimmed string and whether anything was trimmed
trimSuffix(s, suf) == [s |-> TrimSuffix(s, suf), ok |-> TrimSuffix(s, suf) # s]

\* url.PathUnescape: %XX decodes to the byte; a % not followed by two hex digits is an error
RECURSIVE PathUnescape(_)
PathUnescape(s) ==
    IF Len(s) = 0 THEN [err |-> FALSE, s |-> <<>>]
    ELSE IF s[1] = "%"
    THEN IF Len(s) < 3 \/ ~ishex(s[2]) \/ ~ishex(s[3])
         THEN [err |-> TRUE, s |-> <<>>]
         ELSE LET rest == PathUnescape(Drop(s, 3))
                      IN  [err |-> rest.err,
                   s |-> IF rest.err THEN <<>>
                         ELSE <<Chr(16 * unhex(s[2]) + unhex(s[3]))>> \o rest.s]
    ELSE LET rest == PathUnescape(Tail(s))
         IN  [err |-> rest.err, s |-> IF rest.err THEN <<>> ELSE <<s[1]>> \o rest.s]

-----------------------------------------------------------------------------
(* Patterns: segment, pattern, parseSegment, parsePattern, compare *)

\* paramType, in precedence order
paramString == 0
paramInt64 == 1
paramInt32 == 2

\* patternOpt, in precedence order
patOther == 0
patEmpty == 1
patStar == 2
patWildcard == 3
patTrailingSlash == 4

NoSegment == [s |-> <<>>, isParam |-> FALSE, ptyp |-> paramString]

NoPattern == [segs |-> <<>>, opt |-> patOther]

\* parseSegment keeping a literal segment as written, escapes and all
parseSegment_escaped(s0) ==
    IF Contains(s0, <<"*">>) THEN [err |-> "errSegmentStar", seg |-> NoSegment]
    ELSE IF s0[1] # ":"
    THEN LET u == PathUnescape(s0)
         IN  IF u.err THEN [err |-> "invalid URL escape", seg |-> NoSegment]
             ELSE [err |-> "", seg |-> [NoSegment EXCEPT !.s = s0]]
    ELSE LET s == Tail(s0)
             i == IndexByte(s, ":")
             typ == Drop(s, i + 1)
         IN  IF s = <<>> THEN [err |-> "errEmptyParamName", seg |-> NoSegment]
             ELSE IF i < 0
             THEN [err |-> "", seg |-> [s |-> s, isParam |-> TRUE, ptyp |-> paramString]]
             ELSE IF i = 0
             THEN [err |-> "errEmptyParamName", seg |-> [NoSegment EXCEPT !.isParam = TRUE]]
             ELSE IF typ = S("string")
             THEN [err |-> "", seg |-> [s |-> Take(s, i), isParam |-> TRUE, ptyp |-> paramString]]
             ELSE IF typ = S("int32")
             THEN [err |-> "", seg |-> [s |-> Take(s, i), isParam |-> TRUE, ptyp |-> paramInt32]]
             ELSE IF typ = S("int64")
             THEN [err |-> "", seg |-> [s |-> Take(s, i), isParam |-> TRUE, ptyp |-> paramInt64]]
             ELSE [err |-> "unknown parameter type", seg |-> [NoSegment EXCEPT !.isParam = TRUE]]

parseSegment(s0) ==
    IF Contains(s0, <<"*">>) THEN [err |-> "errSegmentStar", seg |-> NoSegment]
    ELSE IF s0[1] # ":"
    THEN LET u == PathUnescape(s0)
         IN  IF u.err THEN [err |-> "invalid URL escape", seg |-> NoSegment]
             ELSE [err |-> "", seg |-> [NoSegment EXCEPT !.s = u.s]]
    ELSE LET s == Tail(s0)
             i == IndexByte(s, ":")
             typ == Drop(s, i + 1)
         IN  IF s = <<>> THEN [err |-> "errEmptyParamName", seg |-> NoSegment]
             ELSE IF i < 0
             THEN [err |-> "", seg |-> [s |-> s, isParam |-> TRUE, ptyp |-> paramString]]
             ELSE IF i = 0
             THEN [err |-> "errEmptyParamName", seg |-> [NoSegment EXCEPT !.isParam = TRUE]]
             ELSE IF typ = S("string")
             THEN [err |-> "", seg |-> [s |-> Take(s, i), isParam |-> TRUE, ptyp |-> paramString]]
             ELSE IF typ = S("int32")
             THEN [err |-> "", seg |-> [s |-> Take(s, i), isParam |-> TRUE, ptyp |-> paramInt32]]
             ELSE IF typ = S("int64")
             THEN [err |-> "", seg |-> [s |-> Take(s, i), isParam |-> TRUE, ptyp |-> paramInt64]]
             ELSE [err |-> "unknown parameter type", seg |-> [NoSegment EXCEPT !.isParam = TRUE]]

\* The loop of parsePattern over the rest of the pattern text, with the segments
\* parsed so far and the set of parameter names seen.
RECURSIVE parseSegments(_, _, _, _)
parseSegments(pat, segs, params, opt) ==
    IF pat = <<>> THEN [err |-> "", p |-> [segs |-> segs, opt |-> opt]]
    ELSE LET i == IndexByte(pat, "/")
             \* the loop body once the segment is parsed, r its result
             parsed(r) ==
                 IF r.err # "" THEN [err |-> r.err, p |-> [segs |-> segs, opt |-> opt]]
                 ELSE IF r.seg.isParam /\ r.seg.s \in params
                 THEN [err |-> "duplicate parameter", p |-> [segs |-> segs, opt |-> opt]]
                 ELSE parseSegments(IF i >= 0 THEN Drop(pat, i + 1) ELSE <<>>,
                                    Append(segs, r.seg),
                                    IF r.seg.isParam THEN params \cup {r.seg.s} ELSE params,
                                    opt)
         IN  parsed(parseSegment(IF i >= 0 THEN Take(pat, i) ELSE pat))

\* parsePattern without the test for the leading slash
parsePattern_anyStart(pat) ==
    IF pat = <<>> THEN [err |-> "", p |-> [NoPattern EXCEPT !.opt = patEmpty]]
    ELSE IF pat = <<"*">> THEN [err |-> "", p |-> [NoPattern EXCEPT !.opt = patStar]]
    ELSE IF Contains(pat, S("//")) THEN [err |-> "errPatternSlash", p |-> NoPattern]
    ELSE LET segments(t1, t2) ==
                 parseSegments(TrimPrefix(t2.s, S("/")), <<>>, {},
                               IF t2.ok THEN patTrailingSlash
                               ELSE IF t1.ok THEN patWildcard ELSE patOther)
             slash(t1) == segments(t1, trimSuffix(t1.s, S("/")))
         IN  slash(trimSuffix(pat, S("/*")))

parsePattern(pat) ==
    IF pat = <<>> THEN [err |-> "", p |-> [NoPattern EXCEPT !.opt = patEmpty]]
    ELSE IF pat = <<"*">> THEN [err |-> "", p |-> [NoPattern EXCEPT !.opt = patStar]]
    ELSE IF Contains(pat, S("//")) THEN [err |-> "errPatternSlash", p |-> NoPattern]
    ELSE IF ~HasPrefix(pat, S("/")) THEN [err |-> "errPatternWithoutSlash", p |-> NoPattern]
    ELSE LET \* t1: the pattern without a final /*, t2: that without a final /
             segments(t1, t2) ==
                 parseSegments(TrimPrefix(t2.s, S("/")), <<>>, {},
                               IF t2.ok THEN patTrailingSlash
                               ELSE IF t1.ok THEN patWildcard ELSE patOther)
             slash(t1) == segments(t1, trimSuffix(t1.s, S("/")))
         IN  slash(trimSuffix(pat, S("/*")))

Min(a, b) == IF a < b THEN a ELSE b

\* pattern.compare from segment i (1-based) on, n the common length
RECURSIVE compareFrom(_, _, _, _)
compareFrom(p, p1, i, n) ==
    IF i > n
    THEN IF Len(p.segs) > n THEN 1
         ELSE IF Len(p1.segs) > n THEN -1
         ELSE p.opt - p1.opt
    ELSE LET seg0 == p.segs[i]
             seg1 == p1.segs[i]
         IN  IF seg0.isParam # seg1.isParam
             THEN (IF seg0.isParam THEN -1 ELSE 1)
             ELSE IF seg0.isParam /\ seg0.ptyp # seg1.ptyp
             THEN seg0.ptyp - seg1.ptyp
             ELSE IF ~seg0.isParam /\ seg0.s # seg1.s
             THEN StrCompare(seg0.s, seg1.s)
             ELSE compareFrom(p, p1, i + 1, n)

\* compare looking at the endings only
compare_endingOnly(p, p1) == p.opt - p1.opt

\* compare with its two patterns exchanged
compare_exchanged(p, p1) == compareFrom(p1, p, 1, Min(Len(p.segs), Len(p1.segs)))

compare(p, p1) == compareFrom(p, p1, 1, Min(Len(p.segs), Len(p1.segs)))

-----------------------------------------------------------------------------
(* Handlers.  An http.Handler is a named function, a file server, a built Mux *)
(* (by its index in muxes) or nil; prefix says it is wrapped in a             *)
(* prefixHandler that removes skip segments.                                  *)

NilH == [k |-> "nil", name |-> "", mux |-> 0, prefix |-> FALSE, skip |-> 0]

Fn(name) == [NilH EXCEPT !.k = "fn", !.name = name]

\* the http.Handler that Get, Post, Put, Delete and Head hand to Handle when they
\* are given a nil function: an interface value holding a nil http.HandlerFunc,
\* which is not the nil interface
NilFunc == [NilH EXCEPT !.k = "nilfunc"]

FileH(name) == [NilH EXCEPT !.k = "file", !.name = name]

MuxH(m) == [NilH EXCEPT !.k = "mux", !.mux = m]

prefixHandler(h, skip) == [h EXCEPT !.prefix = TRUE, !.skip = skip]

-----------------------------------------------------------------------------
(* The route table.  A table state st is [heap, maps, ms]: the matcher      *)
(* objects, the map objects, and the matchers slice (addresses into heap).  *)

NilMap == 0

EmptyMap == [x \in {} |-> NilH]

newMatcher(p) == [pat |-> p, byMethod |-> NilMap, methodNames |-> <<>>, allMethods |-> NilH]

\* m.byMethod[method] with its ok flag; reading a nil map finds nothing
hasMethod(st, m, method) == m.byMethod # NilMap /\ method \in DOMAIN st.maps[m.byMethod]

\* sort.Strings
RECURSIVE InsertSorted(_, _)
InsertSorted(sorted, x) ==
    IF sorted = <<>> THEN <<x>>
    ELSE IF StrCompare(x, sorted[1]) < 0 THEN <<x>> \o sorted
    ELSE <<sorted[1]>> \o InsertSorted(Tail(sorted), x)

RECURSIVE SortStrings(_)
SortStrings(names) ==
    IF names = <<>> THEN <<>> ELSE InsertSorted(SortStrings(Tail(names)), names[1])

\* addMethodHandler leaving methodNames in the order of registration
addMethodHandler_unsorted(st, a, method, h) ==
    LET m == st.heap[a]
    IN  IF hasMethod(st, m, method) THEN [ok |-> FALSE, st |-> st]
        ELSE LET st1 == IF m.byMethod = NilMap
                        THEN [st EXCEPT !.maps = Append(@, EmptyMap),
                                        !.heap[a].byMethod = Len(st.maps) + 1]
                        ELSE st
                 mp == st1.heap[a].byMethod
             IN  [ok |-> TRUE,
                  st |-> [st1 EXCEPT !.maps[mp] = (method :> h) @@ @,
                                     !.heap[a].methodNames = Append(@, method)]]

addMethodHandler(st, a, method, h) ==
    LET m == st.heap[a]
    IN  IF hasMethod(st, m, method) THEN [ok |-> FALSE, st |-> st]
        ELSE LET st1 == IF m.byMethod = NilMap
                        THEN [st EXCEPT !.maps = Append(@, EmptyMap),
                                        !.heap[a].byMethod = Len(st.maps) + 1]
                        ELSE st
                 mp == st1.heap[a].byMethod
             IN  [ok |-> TRUE,
                  st |-> [st1 EXCEPT !.maps[mp] = (method :> h) @@ @,
                                     !.heap[a].methodNames = SortStrings(Append(@, method))]]

\* merge without the test for a catch-all bound already
merge_unchecked(st, a, method, h) ==
    IF method = <<>>
    THEN addMethodHandler([st EXCEPT !.heap[a].allMethods = h], a, method, h)
    ELSE addMethodHandler(st, a, method, h)

merge(st, a, method, h) ==
    IF method = <<>>
    THEN IF st.heap[a].allMethods # NilH THEN [ok |-> FALSE, st |-> st]
         ELSE addMethodHandler([st EXCEPT !.heap[a].allMethods = h], a, method, h)
    ELSE addMethodHandler(st, a, method, h)

\* sort.Search(len(b.matchers), func(i) { return p.compare(b.matchers[i].pat) >= 0 }):
\* the binary search itself, on [i, j), 0-based
\* sort.Search replaced by the start of the range: every new slot goes in front
sortSearch_front(st, p, i, j) == i

RECURSIVE sortSearch(_, _, _, _)
sortSearch(st, p, i, j) ==
    IF i < j
    THEN LET h == (i + j) \div 2
         IN  IF ~(compare(p, st.heap[st.ms[h + 1]].pat) >= 0)
             THEN sortSearch(st, p, h + 1, j)
             ELSE sortSearch(st, p, i, h)
    ELSE i

InsertAt(seq, i, x) == Take(seq, i) \o <<x>> \o Drop(seq, i)

\* addHandler putting a new slot at the end of b.matchers
addHandler_atEnd(st, method, p, h) ==
    LET a == Len(st.heap) + 1
        st1 == [st EXCEPT !.heap = Append(@, newMatcher(p))]
        merged(r) == [err |-> IF r.ok THEN "" ELSE "conflict", st |-> r.st]
        inserted(i, st2) == [err |-> "", st |-> [st2 EXCEPT !.ms = Append(@, a)]]
        \* i: the index sort.Search found
        found(i) ==
            IF i < Len(st.ms) /\ compare(st.heap[st.ms[i + 1]].pat, p) = 0
            THEN merged(merge(st, st.ms[i + 1], method, h))
            ELSE inserted(i, IF method = <<>>
                             THEN [st1 EXCEPT !.heap[a].allMethods = h]
                             ELSE addMethodHandler(st1, a, method, h).st)
    IN  found(sortSearch(st, p, 0, Len(st.ms)))

addHandler(st, method, p, h) ==
    LET a == Len(st.heap) + 1
        st1 == [st EXCEPT !.heap = Append(@, newMatcher(p))]
        merged(r) == [err |-> IF r.ok THEN "" ELSE "conflict", st |-> r.st]
        inserted(i, st2) == [err |-> "", st |-> [st2 EXCEPT !.ms = InsertAt(@, i, a)]]
        \* i: the index sort.Search found
        found(i) ==
            IF i < Len(st.ms) /\ compare(st.heap[st.ms[i + 1]].pat, p) = 0
            THEN merged(merge(st, st.ms[i + 1], method, h))
            ELSE inserted(i, IF method = <<>>
                             THEN [st1 EXCEPT !.heap[a].allMethods = h]
                             ELSE addMethodHandler(st1, a, method, h).st)
    IN  found(sortSearch(st, p, 0, Len(st.ms)))

\* Builder.handle
handle(st, method, pat, h) ==
    IF h = NilH THEN [err |-> "nil handler", st |-> st]
    ELSE LET parsed(r) ==
                 IF r.err # "" THEN [err |-> r.err, st |-> st]
                 ELSE addHandler(st, method, r.p, h)
         IN  parsed(parsePattern(pat))

\* Builder.Prefix (its panics are the errors)
Prefix(st, pat, h) ==
    IF h = NilH THEN [err |-> "nil handler", st |-> st]
    ELSE LET parsed(r) ==
                 IF r.err # "" THEN [err |-> r.err, st |-> st]
                 ELSE IF r.p.opt = patEmpty
                 THEN [err |-> "Prefix called with empty pattern", st |-> st]
                 ELSE IF r.p.opt = patStar
                 THEN [err |-> "Prefix called with pattern *", st |-> st]
                 ELSE addHandler(st, <<>>, [r.p EXCEPT !.opt = patWildcard],
                                 prefixHandler(h, Len(r.p.segs)))
         IN  parsed(parsePattern(pat))

MethodGet == S("GET")
MethodHead == S("HEAD")
MethodPost == S("POST")
MethodConnect == S("CONNECT")

\* Builder.handleServeFile
handleServeFile(st, pat, name) ==
    LET \* r1: the result of binding GET
        head(r, r1) ==
            IF r1.err # "" THEN r1 ELSE addHandler(r1.st, MethodHead, r.p, FileH(name))
        parsed(r) ==
            IF r.err # "" THEN [err |-> r.err, st |-> st]
            ELSE head(r, addHandler(st, MethodGet, r.p, FileH(name)))
    IN  parsed(parsePattern(pat))

\* clone copying the struct only: the new matcher keeps the byMethod map of the old
clone_sharedMap(st, a) == [st EXCEPT !.heap = Append(@, st.heap[a])]

\* matcher.clone: a new matcher object with a new map holding the same entries
clone(st, a) ==
    LET m == st.heap[a]
        mp == Len(st.maps) + 1
    IN  [st EXCEPT !.maps = Append(@, IF m.byMethod = NilMap THEN EmptyMap
                                      ELSE st.maps[m.byMethod]),
                   !.heap = Append(@, [m EXCEPT !.byMethod = mp])]

\* Builder.Build: the loop over b.matchers from index i, m the Mux's slice so far
RECURSIVE buildFrom(_, _, _)
buildFrom(st, i, m) ==
    IF i > Len(st.ms) THEN [st |-> st, m |-> m]
    ELSE LET cloned(st1) == buildFrom(st1, i + 1, Append(m, Len(st1.heap)))
         IN  cloned(clone(st, st.ms[i]))

Build(st) == buildFrom(st, 1, <<>>)

-----------------------------------------------------------------------------
(* net/url and path, as far as ServeHTTP and its callers use them *)

Range(f) == {f[i] : i \in DOMAIN f}

Alnum == Range(S("abcdefghijklmnopqrstuvwxyzABCDEFGHIJKLMNOPQRSTUVWXYZ0123456789"))

\* url.shouldEscape in encodePath mode
shouldEscape(c) == c \notin Alnum \cup Range(S("-_.~$&+,/:;=@"))

RECURSIVE escape(_)
escape(s) ==
    IF s = <<>> THEN <<>>
    ELSE (IF shouldEscape(s[1])
          THEN <<"%", HexDigits[(Ord(s[1]) \div 16) + 1], HexDigits[(Ord(s[1]) % 16) + 1]>>
          ELSE <<s[1]>>) \o escape(Tail(s))

\* url.validEncoding in encodePath mode
validEncoding(s) ==
    \A i \in 1..Len(s) : s[i] \in Range(S("!$&'()*+,;=:@[]%")) \/ ~shouldEscape(s[i])

\* URL.EscapedPath: the raw path when it is a valid encoding of the path
EscapedPath(u) ==
    IF u.rawpath # <<>> /\ validEncoding(u.rawpath)
       /\ ~PathUnescape(u.rawpath).err /\ PathUnescape(u.rawpath).s = u.path
    THEN u.rawpath
    ELSE IF u.path = <<"*">> THEN <<"*">>
    ELSE escape(u.path)

\* The request httptest.NewRequest (url.ParseRequestURI, URL.setPath) makes of a
\* request target: RawPath is kept only when it is not the default encoding of Path.
\* The empty target stands for an absolute-form target without a path.
NewRequest(method, target) ==
    IF target = <<"*">> THEN [method |-> method, path |-> target, rawpath |-> <<>>]
    ELSE LET pth == PathUnescape(target).s
         IN  [method |-> method, path |-> pth,
              rawpath |-> IF escape(pth) = target THEN <<>> ELSE target]

ValidTarget(target) ==
    /\ ~PathUnescape(target).err
    /\ IF target = <<>> \/ target = <<"*">> THEN TRUE ELSE target[1] = "/"

\* path.Clean's loop: r reads path (0-based), out is the buffer written so far,
\* dotdot the length below which out may not be cut
RECURSIVE backUp(_, _, _)
backUp(buf, w, dotdot) ==
    IF w > dotdot /\ buf[w + 1] # "/" THEN backUp(buf, w - 1, dotdot) ELSE w

RECURSIVE copySegment(_, _, _)
copySegment(path, r, out) ==
    IF r < Len(path) /\ path[r + 1] # "/" THEN copySegment(path, r + 1, Append(out, path[r + 1]))
    ELSE [r |-> r, out |-> out]

RECURSIVE cleanLoop(_, _, _, _, _)
cleanLoop(path, rooted, r, out, dotdot) ==
    LET n == Len(path)
    IN  IF ~(r < n) THEN out
        ELSE IF path[r + 1] = "/" THEN cleanLoop(path, rooted, r + 1, out, dotdot)
        ELSE IF path[r + 1] = "." /\ (r + 1 = n \/ path[r + 2] = "/")
        THEN cleanLoop(path, rooted, r + 1, out, dotdot)
        ELSE IF path[r + 1] = "." /\ path[r + 2] = "." /\ (r + 2 = n \/ path[r + 3] = "/")
        THEN IF Len(out) > dotdot
             THEN cleanLoop(path, rooted, r + 2,
                            Take(out, backUp(out, Len(out) - 1, dotdot)), dotdot)
             ELSE IF ~rooted
             THEN LET out1 == (IF Len(out) > 0 THEN Append(out, "/") ELSE out) \o <<".", ".">>
                  IN  cleanLoop(path, rooted, r + 2, out1, Len(out1))
             ELSE cleanLoop(path, rooted, r + 2, out, dotdot)
        ELSE LET copied(c) == cleanLoop(path, rooted, c.r, c.out, dotdot)
             IN  copied(copySegment(path, r,
                                    IF (rooted /\ Len(out) # 1) \/ (~rooted /\ Len(out) # 0)
                                    THEN Append(out, "/") ELSE out))

\* path.Clean
Clean(path) ==
    IF path = <<>> THEN <<".">>
    ELSE LET rooted == path[1] = "/"
             result(out) == IF out = <<>> THEN <<".">> ELSE out
         IN  result(IF rooted THEN cleanLoop(path, TRUE, 1, <<"/">>, 1)
                    ELSE cleanLoop(path, FALSE, 0, <<>>, 0))

-----------------------------------------------------------------------------
(* Matching.  An environment env is [heap, maps, muxes].  A panic of the    *)
(* code is an outcome of its own: the operators return panic |-> TRUE.      *)

NoOpts == [trailingSlash |-> FALSE, star |-> FALSE, reencode |-> FALSE]

NilParams == [nil |-> TRUE, ps |-> <<>>, wildcard |-> <<>>, hasWildcard |-> FALSE]

newParams == [NilParams EXCEPT !.nil = FALSE]

noMatch == [h |-> NilH, p |-> NilParams, allow |-> <<>>, panic |-> FALSE]

panicResult == [noMatch EXCEPT !.panic = TRUE]

Digits == Range(S("0123456789"))

RECURSIVE stripZeros(_)
stripZeros(d) == IF Len(d) > 1 /\ d[1] = "0" THEN stripZeros(Tail(d)) ELSE d

\* a <= b for decimal numerals without leading zeros
NumLeq(a, b) == Len(a) < Len(b) \/ (Len(a) = Len(b) /\ StrCompare(a, b) <= 0)

\* 2^(bitSize-1) as a decimal numeral
cutoff(bitSize) == IF bitSize = 32 THEN S("2147483648") ELSE S("9223372036854775808")

\* strconv.ParseInt(s, 10, bitSize): ok, and the value n as a canonical decimal numeral
ParseInt(s, bitSize) ==
    IF s = <<>> THEN [ok |-> FALSE, n |-> <<"0">>]
    ELSE LET neg == s[1] = "-"
             d == IF s[1] \in {"+", "-"} THEN Tail(s) ELSE s
             mag == stripZeros(d)
         IN  IF d = <<>> \/ \E i \in 1..Len(d) : d[i] \notin Digits
             THEN [ok |-> FALSE, n |-> <<"0">>]
             ELSE IF ~neg /\ NumLeq(cutoff(bitSize), mag) THEN [ok |-> FALSE, n |-> <<"0">>]
             ELSE IF neg /\ ~NumLeq(mag, cutoff(bitSize)) THEN [ok |-> FALSE, n |-> <<"0">>]
             ELSE [ok |-> TRUE, n |-> IF neg /\ mag # <<"0">> THEN <<"-">> \o mag ELSE mag]

matchParam(seg, s, opts) ==
    LET \* u: the segment decoded (again) when the path was raw; r: its integer value
        typed(u, r) ==
            LET p == [name |-> seg.s, val |-> u.s, n |-> <<"0">>, typ |-> seg.ptyp]
            IN  IF u.err THEN [p |-> p, ok |-> FALSE, panic |-> TRUE]
                ELSE IF seg.ptyp = paramString THEN [p |-> p, ok |-> TRUE, panic |-> FALSE]
                ELSE IF ~r.ok THEN [p |-> p, ok |-> FALSE, panic |-> FALSE]
                ELSE [p |-> [p EXCEPT !.n = r.n], ok |-> TRUE, panic |-> FALSE]
    IN  typed(IF opts.reencode THEN PathUnescape(s) ELSE [err |-> FALSE, s |-> s],
              ParseInt(s, IF seg.ptyp = paramInt32 THEN 32 ELSE 64))

matchMethod(env, m, method, p) ==
    IF hasMethod(env, m, method)
    THEN [noMatch EXCEPT !.h = env.maps[m.byMethod][method], !.p = p]
    ELSE IF m.allMethods # NilH THEN [noMatch EXCEPT !.h = m.allMethods, !.p = p]
    ELSE [noMatch EXCEPT !.allow = Join(m.methodNames, S(", "))]

\* the loop of matcher.match over the request parts, from part i (1-based)
RECURSIVE matchParts(_, _, _, _, _)
matchParts(m, parts, opts, i, p) ==
    IF i > Len(parts) \/ i = Len(m.pat.segs) + 1 THEN [ok |-> TRUE, panic |-> FALSE, p |-> p]
    ELSE LET seg == m.pat.segs[i]
             captured(pr) ==
                 IF pr.panic THEN [ok |-> FALSE, panic |-> TRUE, p |-> p]
                 ELSE IF ~pr.ok THEN [ok |-> FALSE, panic |-> FALSE, p |-> p]
                 ELSE matchParts(m, parts, opts, i + 1,
                                 [(IF p.nil THEN newParams ELSE p) EXCEPT !.ps = Append(@, pr.p)])
         IN  IF seg.isParam THEN captured(matchParam(seg, parts[i], opts))
             ELSE IF parts[i] # seg.s THEN [ok |-> FALSE, panic |-> FALSE, p |-> p]
             ELSE matchParts(m, parts, opts, i + 1, p)

\* matcher.match after the switch on the pattern kind
matchPath(env, m, method, parts, opts) ==
    IF (m.pat.opt = patWildcard /\ Len(parts) < Len(m.pat.segs))
       \/ (m.pat.opt # patWildcard /\ Len(parts) # Len(m.pat.segs))
    THEN noMatch
    ELSE LET \* u: the wildcard text decoded (again) when the path was raw
             wildcard(r, u) ==
                 IF u.err THEN panicResult
                 ELSE matchMethod(env, m, method,
                                  [(IF r.p.nil THEN newParams ELSE r.p)
                                      EXCEPT !.wildcard = u.s, !.hasWildcard = TRUE])
             joined(r, wild) ==
                 wildcard(r, IF opts.reencode THEN PathUnescape(wild)
                             ELSE [err |-> FALSE, s |-> wild])
             \* r: the result of the loop over the segments
             matched(r) ==
                 IF r.panic THEN panicResult
                 ELSE IF ~r.ok THEN noMatch
                 ELSE IF m.pat.opt # patWildcard THEN matchMethod(env, m, method, r.p)
                 ELSE IF Len(parts) = Len(m.pat.segs) /\ ~opts.trailingSlash THEN noMatch
                 ELSE joined(r, <<"/">> \o Join(Drop(parts, Len(m.pat.segs)), <<"/">>))
         IN  matched(matchParts(m, parts, opts, 1, NilParams))

\* matcher.match
\* matcher.match without the test of optStar: the pattern "*" matches every target
match_starAnywhere(env, m, method, parts, opts) ==
    IF m.pat.opt = patOther /\ opts.trailingSlash THEN noMatch
    ELSE IF m.pat.opt = patEmpty THEN matchMethod(env, m, method, NilParams)
    ELSE IF m.pat.opt = patStar THEN matchMethod(env, m, method, NilParams)
    ELSE IF m.pat.opt = patTrailingSlash /\ ~opts.trailingSlash THEN noMatch
    ELSE matchPath(env, m, method, parts, opts)

match(env, m, method, parts, opts) ==
    IF m.pat.opt = patOther /\ opts.trailingSlash THEN noMatch
    ELSE IF m.pat.opt = patEmpty THEN matchMethod(env, m, method, NilParams)
    ELSE IF m.pat.opt = patStar
    THEN (IF opts.star THEN matchMethod(env, m, method, NilParams) ELSE noMatch)
    ELSE IF m.pat.opt = patTrailingSlash /\ ~opts.trailingSlash THEN noMatch
    ELSE matchPath(env, m, method, parts, opts)

\* the scan of Mux.handler over m.matchers from index i, result the first 405 kept
RECURSIVE scan(_, _, _, _, _, _, _)
scan(env, ms, method, parts, opts, i, result) ==
    IF i > Len(ms) THEN result
    ELSE LET tried(mr) ==
                 IF mr.panic THEN mr
                 ELSE IF mr.h # NilH THEN mr
                 ELSE scan(env, ms, method, parts, opts, i + 1,
                           IF result = noMatch THEN mr ELSE result)
         IN  tried(match(env, env.heap[ms[i]], method, parts, opts))

\* the parts and options Mux.handler computes from the path
splitPath(pth, opts) ==
    IF pth = <<"*">> THEN [parts |-> <<>>, opts |-> [opts EXCEPT !.star = TRUE]]
    ELSE LET t == trimSuffix(pth, <<"/">>)
             rest == TrimPrefix(t.s, <<"/">>)
         IN  [parts |-> IF rest # <<>> THEN Split(rest, "/") ELSE <<>>,
              opts |-> IF t.ok THEN [opts EXCEPT !.trailingSlash = TRUE] ELSE opts]

\* Mux.handler
handler(env, ms, method, pth, opts0) ==
    LET \* sp: the parts of the path as written, and the options
        decoded(sp) ==
            IF sp.opts.reencode /\ \E i \in 1..Len(sp.parts) : PathUnescape(sp.parts[i]).err
            THEN panicResult
            ELSE scan(env, ms, method,
                      IF sp.opts.reencode
                      THEN [i \in 1..Len(sp.parts) |-> PathUnescape(sp.parts[i]).s]
                      ELSE sp.parts,
                      sp.opts, 1, noMatch)
    IN  decoded(splitPath(pth, opts0))

\* the scan of shouldRedirect from offset i (0-based) of pth
RECURSIVE redirectScan(_, _)
\* the scan answering with the path as it is, not cleaned
redirectScan_uncleaned(pth, i) ==
    IF ~(i < Len(pth)) THEN [targ |-> pth, ok |-> FALSE]
    ELSE LET segment(n) ==
                 IF (IF n < 0 THEN Drop(pth, i) ELSE SubSeq(pth, i + 1, i + n))
                        \in {<<>>, <<".">>, <<".", ".">>}
                 THEN [targ |-> pth, ok |-> TRUE]
                 ELSE redirectScan(pth, IF n < 0 THEN Len(pth) ELSE i + n + 1)
         IN  segment(IndexByte(Drop(pth, i), "/"))

redirectScan(pth, i) ==
    IF ~(i < Len(pth)) THEN [targ |-> pth, ok |-> FALSE]
    ELSE LET slashed(clean) ==
                 IF pth[Len(pth)] = "/" /\ clean # <<"/">> THEN Append(clean, "/") ELSE clean
             \* n: the offset of the next slash from i, -1 when there is none
             segment(n) ==
                 IF (IF n < 0 THEN Drop(pth, i) ELSE SubSeq(pth, i + 1, i + n))
                        \in {<<>>, <<".">>, <<".", ".">>}
                 THEN [targ |-> slashed(Clean(pth)), ok |-> TRUE]
                 ELSE redirectScan(pth, IF n < 0 THEN Len(pth) ELSE i + n + 1)
         IN  segment(IndexByte(Drop(pth, i), "/"))

\* shouldRedirect without its case for the empty path
shouldRedirect_noEmpty(pth) ==
    redirectScan(IF pth = <<>> THEN <<"/">> ELSE IF pth[1] # "/" THEN <<"/">> \o pth ELSE pth, 1)

shouldRedirect(pth) ==
    IF pth = <<>> THEN [targ |-> <<"/">>, ok |-> TRUE]
    ELSE redirectScan(IF pth[1] # "/" THEN <<"/">> \o pth ELSE pth, 1)

\* skipPrefix: the loop, with skip segments still to remove
RECURSIVE skipLoop(_, _)
skipLoop(s, skip) ==
    IF skip = 0 THEN [s |-> s, panic |-> FALSE]
    ELSE LET j == IndexByte(Tail(s), "/")
         IN  IF j < 0 THEN [s |-> s, panic |-> TRUE] ELSE skipLoop(Drop(s, j + 1), skip - 1)

skipPrefix(s, skip) == skipLoop(IF ~HasPrefix(s, <<"/">>) THEN <<"/">> \o s ELSE s, skip)

\* prefixHandler.trimPrefix, on the path and raw path of the request's URL
trimPrefix(u, skip) ==
    IF u.rawpath = <<>>
    THEN LET skipped(r) == [path |-> r.s, rawpath |-> <<>>, panic |-> r.panic]
         IN  skipped(skipPrefix(u.path, skip))
    ELSE LET unescaped(r, d) == [path |-> d.s, rawpath |-> r.s, panic |-> r.panic \/ d.err]
             skipped(r) == unescaped(r, PathUnescape(r.s))
         IN  skipped(skipPrefix(u.rawpath, skip))

\* Params.merge: the loop over p1.ps from index i; ps0 is p.ps before the call
RECURSIVE mergeLoop(_, _, _, _)
mergeLoop(ps, ps0, ps1, i) ==
    IF i > Len(ps1) THEN ps
    ELSE IF \E j \in 1..Len(ps0) : ps0[j].name = ps1[i].name
    THEN LET j == CHOOSE j \in 1..Len(ps0) :
                      /\ ps0[j].name = ps1[i].name
                      /\ \A k \in 1..(j - 1) : ps0[k].name # ps1[i].name
         IN  mergeLoop([ps EXCEPT ![j] = ps1[i]], ps0, ps1, i + 1)
    ELSE mergeLoop(Append(ps, ps1[i]), ps0, ps1, i + 1)

\* merge appending every inner param, overriding none
paramsMerge_append(p, p1) ==
    LET q == IF p1.hasWildcard
             THEN [p EXCEPT !.wildcard = p1.wildcard, !.hasWildcard = TRUE] ELSE p
    IN  [q EXCEPT !.ps = p.ps \o p1.ps]

paramsMerge(p, p1) ==
    LET q == IF p1.hasWildcard
             THEN [p EXCEPT !.wildcard = p1.wildcard, !.hasWildcard = TRUE] ELSE p
    IN  [q EXCEPT !.ps = mergeLoop(p.ps, p.ps, p1.ps, 1)]

\* Params.get returning the zero param, without a panic, when the name is missing
get_zeroValue(p, name) ==
    LET hits == IF p.nil THEN {} ELSE {i \in 1..Len(p.ps) : p.ps[i].name = name}
    IN  IF hits = {}
        THEN [panic |-> FALSE,
              pp |-> [name |-> name, val |-> <<>>, n |-> <<"0">>, typ |-> paramString]]
        ELSE [panic |-> FALSE, pp |-> p.ps[CHOOSE i \in hits : \A k \in hits : i <= k]]

\* Params.get(name): the first param of that name; the call panics when there is
\* none, and on the nil *Params that RequestParams returns when nothing was captured
get(p, name) ==
    LET hits == IF p.nil THEN {} ELSE {i \in 1..Len(p.ps) : p.ps[i].name = name}
    IN  IF hits = {}
        THEN [panic |-> TRUE,
              pp |-> [name |-> name, val |-> <<>>, n |-> <<"0">>, typ |-> paramString]]
        ELSE [panic |-> FALSE, pp |-> p.ps[CHOOSE i \in hits : \A k \in hits : i <= k]]

\* Params.Get(name)
Get(p, name) == [panic |-> get(p, name).panic, val |-> get(p, name).pp.val]

\* Params.Int(name), where int has 64 bits
ParamsInt(p, name) ==
    LET r == get(p, name)
    IN  IF r.panic \/ r.pp.typ \notin {paramInt32, paramInt64}
        THEN [panic |-> TRUE, val |-> <<"0">>]
        ELSE [panic |-> FALSE, val |-> r.pp.n]

\* Params.Int32(name)
Int32(p, name) ==
    LET r == get(p, name)
    IN  IF r.panic \/ r.pp.typ # paramInt32
        THEN [panic |-> TRUE, val |-> <<"0">>]
        ELSE [panic |-> FALSE, val |-> r.pp.n]

\* Params.Int64(name)
Int64(p, name) ==
    LET r == get(p, name)
    IN  IF r.panic \/ r.pp.typ \notin {paramInt32, paramInt64}
        THEN [panic |-> TRUE, val |-> <<"0">>]
        ELSE [panic |-> FALSE, val |-> r.pp.n]

\* Params.Wildcard()
Wildcard(p) ==
    IF p.nil \/ ~p.hasWildcard THEN [panic |-> TRUE, val |-> <<>>]
    ELSE [panic |-> FALSE, val |-> p.wildcard]

NoResp ==
    [kind |-> "none", h |-> NilH, params |-> NilParams, path |-> <<>>, rawpath |-> <<>>,
     allow |-> <<>>, location |-> <<>>, levels |-> <<>>]

\* Mux.ServeHTTP for the Mux muxes[mi], the request r, the Params p0 its context
\* carries (RequestParams(r)), and the captures of the enclosing Muxes (history).
RECURSIVE ServeHTTP(_, _, _, _, _)
ServeHTTP(env, mi, r, p0, levels) ==
    LET raw == r.rawpath # <<>>
        \* http.Redirect to the URL with the path targ; d is targ decoded
        moved(targ, d) ==
            IF raw /\ d.err THEN [NoResp EXCEPT !.kind = "panic"]
            ELSE [NoResp EXCEPT !.kind = "308", !.levels = levels,
                                !.location = EscapedPath(IF raw
                                                         THEN [path |-> d.s, rawpath |-> targ]
                                                         ELSE [path |-> targ, rawpath |-> <<>>])]
        \* mr.handler.ServeHTTP: h is called with the Params p and the request r1
        called(h, p, lv, r1) ==
            IF r1.panic THEN [NoResp EXCEPT !.kind = "panic", !.levels = lv]
            ELSE IF h.k = "mux"
            THEN ServeHTTP(env, h.mux, [r EXCEPT !.path = r1.path, !.rawpath = r1.rawpath],
                           p, lv)
            ELSE IF h.k = "nilfunc"
            THEN [NoResp EXCEPT !.kind = "panic", !.h = h, !.levels = lv]
            ELSE [NoResp EXCEPT !.kind = "handler", !.h = h, !.params = p,
                                !.path = r1.path, !.rawpath = r1.rawpath, !.levels = lv]
        \* mr: the result of m.handler
        routed(mr) ==
            IF mr.panic THEN [NoResp EXCEPT !.kind = "panic", !.levels = levels]
            ELSE IF mr.h = NilH
            THEN IF mr.allow # <<>>
                 THEN [NoResp EXCEPT !.kind = "405", !.allow = mr.allow, !.levels = levels]
                 ELSE [NoResp EXCEPT !.kind = "404", !.levels = levels]
            ELSE called(mr.h,
                        IF mr.p.nil THEN p0
                        ELSE IF ~p0.nil THEN paramsMerge(p0, mr.p) ELSE mr.p,
                        Append(levels, [mux |-> mi, p0 |-> p0, p |-> mr.p]),
                        IF mr.h.prefix THEN trimPrefix(r, mr.h.skip)
                        ELSE [path |-> r.path, rawpath |-> r.rawpath, panic |-> FALSE])
        \* rd: the result of m.shouldRedirect
        canonical(rd) ==
            IF rd.ok THEN moved(rd.targ, PathUnescape(rd.targ))
            ELSE routed(handler(env, env.muxes[mi], r.method,
                                IF raw THEN r.rawpath ELSE r.path,
                                [NoOpts EXCEPT !.reencode = raw]))
    IN  canonical(IF r.method = MethodConnect THEN [targ |-> <<>>, ok |-> FALSE]
                  ELSE shouldRedirect(IF raw THEN r.rawpath ELSE r.path))

-----------------------------------------------------------------------------
(* The state machine: one Builder, the Muxes built from it, one client that  *)
(* waits for each response, and goroutines serving requests concurrently.   *)

MaxRegs == 3

MaxMuxes == 2

MaxHops == 2

MaxSegs == 2

Table == [heap |-> heap, maps |-> maps, ms |-> bld]

Env == [heap |-> heap, maps |-> maps, muxes |-> muxes]

NoCall == [op |-> "none", err |-> ""]

NoReq == [mux |-> 0, method |-> <<>>, target |-> <<>>, path |-> <<>>, rawpath |-> <<>>]

\* history: a binding addHandler accepted
Binding(method, pat, p, h) == [method |-> method, pat |-> pat, p |-> p, h |-> h]

\* how many requests are served concurrently
MaxFlights == 2

\* a goroutine that has no request yet: top is the request as sent, mux and r
\* the Mux serving it now and the request that Mux sees, p the address of the
\* Params in the request's context (0: none), h the handler about to be called
Idle ==
    [pc |-> "idle", top |-> NoReq, mux |-> 0,
     r |-> [method |-> <<>>, path |-> <<>>, rawpath |-> <<>>],
     p |-> 0, h |-> NilH, out |-> NoResp]

Init ==
    /\ flights = [i \in 1..MaxFlights |-> Idle]
    /\ objs = <<>>
    /\ heap = <<>>
    /\ maps = <<>>
    /\ bld = <<>>
    /\ regs = <<>>
    /\ muxes = <<>>
    /\ muxRegs = <<>>
    /\ last = NoCall
    /\ req = NoReq
    /\ resp = NoResp
    /\ hops = 0

\* what every registration call does to the state, given its result r and the
\* bindings it added
Registered(op, r, added) ==
    /\ heap' = r.st.heap
    /\ maps' = r.st.maps
    /\ bld' = r.st.ms
    /\ regs' = regs \o added
    /\ last' = [op |-> op, err |-> r.err]
    /\ req' = NoReq
    /\ resp' = NoResp
    /\ hops' = 0
    /\ UNCHANGED <<muxes, muxRegs, flights, objs>>

\* Builder.Handle(method, pat, h), for a call (method, pat, h) of Calls, while the
\* Builder holds fewer than max bindings; a Mux given as h has been built
Handle(Calls, max) ==
    \E c \in Calls :
        /\ Len(regs) < max
        /\ c.h.k = "mux" => c.h.mux <= Len(muxes)
        /\ LET done(r) ==
                   Registered("Handle", r,
                              IF r.err = ""
                              THEN <<Binding(c.method, c.pat, parsePattern(c.pat).p, c.h)>>
                              ELSE <<>>)
           IN  done(handle(Table, c.method, c.pat, c.h))

\* Builder.Prefix(pat, h), for a call (pat, h) of Calls
PrefixCall(Calls, max) ==
    \E c \in Calls :
        /\ Len(regs) < max
        /\ c.h.k = "mux" => c.h.mux <= Len(muxes)
        /\ LET done(r, p) ==
                   Registered("Prefix", r,
                              IF r.err = ""
                              THEN <<Binding(<<>>, c.pat, [p EXCEPT !.opt = patWildcard],
                                             prefixHandler(c.h, Len(p.segs)))>>
                              ELSE <<>>)
           IN  done(Prefix(Table, c.pat, c.h), parsePattern(c.pat).p)

\* Builder.ServeFile(pat, name), for a call (pat, name) of Calls: the GET binding
\* stays in the table when only the HEAD binding is refused
ServeFile(Calls, max) ==
    \E c \in Calls :
        /\ Len(regs) + 1 < max
        /\ LET \* p: the pattern parsed, g: the result of binding GET alone
               done(r, p, g) ==
                   Registered("ServeFile", r,
                              IF p.err # "" THEN <<>>
                              ELSE IF g.err # "" THEN <<>>
                              ELSE IF r.err # ""
                              THEN <<Binding(MethodGet, c.pat, p.p, FileH(c.name))>>
                              ELSE <<Binding(MethodGet, c.pat, p.p, FileH(c.name)),
                                     Binding(MethodHead, c.pat, p.p, FileH(c.name))>>)
           IN  done(handleServeFile(Table, c.pat, c.name), parsePattern(c.pat),
                    addHandler(Table, MethodGet, parsePattern(c.pat).p, FileH(c.name)))

\* Builder.Build(), while fewer than max Muxes are built
BuildMux(max) ==
    /\ Len(muxes) < max
    /\ LET built(r) ==
               /\ heap' = r.st.heap
               /\ maps' = r.st.maps
               /\ muxes' = Append(muxes, r.m)
               /\ muxRegs' = Append(muxRegs, regs)
       IN  built(Build(Table))
    /\ req' = NoReq
    /\ resp' = NoResp
    /\ hops' = 0
    /\ UNCHANGED <<bld, regs, last, flights, objs>>

\* the client sends method and target to Mux m
Send(m, method, target) ==
    LET sent(r) ==
            /\ req' = [mux |-> m, method |-> method, target |-> target,
                       path |-> r.path, rawpath |-> r.rawpath]
            /\ resp' = ServeHTTP(Env, m, r, NilParams, <<>>)
    IN  sent(NewRequest(method, target))

\* Mux.ServeHTTP on a new request, one of Reqs
Serve(Reqs) ==
    \E m \in 1..Len(muxes), q \in Reqs :
        /\ ValidTarget(q.target)
        /\ Send(m, q.method, q.target)
        /\ hops' = 0
        /\ UNCHANGED <<heap, maps, bld, regs, muxes, muxRegs, last, flights, objs>>

\* the client follows a redirect: Mux.ServeHTTP on the Location it was given
Follow ==
    /\ resp.kind = "308"
    /\ hops < MaxHops
    /\ Send(req.mux, req.method, resp.location)
    /\ hops' = hops + 1
    /\ UNCHANGED <<heap, maps, bld, regs, muxes, muxRegs, last, flights, objs>>

Call(method, pat, h) == [method |-> S(method), pat |-> S(pat), h |-> h]

Mount(pat, h) == [pat |-> S(pat), h |-> h]

File(pat, name) == [pat |-> S(pat), name |-> name]

Probe(method, target) == [method |-> S(method), target |-> S(target)]

Strings(set) == {S(x) : x \in set}

-----------------------------------------------------------------------------
(* Spec: registrations and Builds on rules that share slots, conflict, or   *)
(* are malformed.                                                            *)

HandleCalls ==
    { Call("GET", "/x/:p", Fn("a")),
      Call("POST", "/x/:q", Fn("b")),
      Call("", "/x/:p", Fn("c")),
      Call("GET", "/x/:q", Fn("d")),
      Call("GET", "/x/y", Fn("e")),
      Call("GET", "x", Fn("f")) }

PrefixCalls == { Mount("/x", Fn("p")), Mount("/x/", Fn("q")) }

FileCalls == { File("/x/y", "f") }

Requests == { Probe("GET", "/x/1") }

Next ==
    \/ Handle(HandleCalls, MaxRegs)
    \/ PrefixCall(PrefixCalls, MaxRegs)
    \/ ServeFile(FileCalls, MaxRegs)
    \/ BuildMux(MaxMuxes)
    \/ Serve(Requests)

Spec == Init /\ [][Next]_vars

-----------------------------------------------------------------------------
(* Requests the properties below put to every Mux, and what they compare *)

Probes ==
    { Probe("GET", "/x/1"), Probe("POST", "/x/1"), Probe("PUT", "/x/1"),
      Probe("GET", "/x/y"), Probe("HEAD", "/x/y"), Probe("GET", "/x/y/z"),
      Probe("GET", "/x/") }

\* the whole response of Mux m of env to each probe
Routes(env, m) ==
    [q \in Probes |-> ServeHTTP(env, m, NewRequest(q.method, q.target), NilParams, <<>>)]

\* the outcome of a response: status, chosen handler, Allow list, Location
Outcome(r) == [kind |-> r.kind, h |-> r.h, allow |-> r.allow, location |-> r.location]

EmptyTable == [heap |-> <<>>, maps |-> <<>>, ms |-> <<>>]

\* registering the bindings bs, in this order, on the table st
RECURSIVE Replay(_, _)
Replay(st, bs) ==
    IF bs = <<>> THEN [err |-> "", st |-> st]
    ELSE LET r == addHandler(st, bs[1].method, bs[1].p, bs[1].h)
         IN  IF r.err # "" THEN r ELSE Replay(r.st, Tail(bs))

\* the Mux a new Builder yields from the bindings bs registered in this order
MuxOf(bs) ==
    LET r == Replay(EmptyTable, bs)
        b == Build(r.st)
    IN  [err |-> r.err, env |-> [heap |-> b.st.heap, maps |-> b.st.maps, muxes |-> <<b.m>>]]

Permuted(bs, f) == [i \in 1..Len(bs) |-> bs[f[i]]]

(* C3: routing is independent of registration order.  For every Mux built,  *)
(* registering the bindings it was built from in any other order is         *)
(* accepted too and yields a Mux that gives every probe the same outcome:   *)
(* same status, same chosen handler, same Allow list, same Location.        *)
C3_OrderIndependent ==
    \A m \in 1..Len(muxes) :
        \A f \in Permutations(1..Len(muxRegs[m])) :
            LET other == MuxOf(Permuted(muxRegs[m], f))
            IN  /\ other.err = ""
                /\ \A q \in Probes :
                       Outcome(Routes(other.env, 1)[q]) = Outcome(Routes(Env, m)[q])

\* a Mux built from three bindings, the less specific slot registered first, a
\* later binding merged into it, and a probe each of the three answers
C3_Witness ==
    \E m \in 1..Len(muxes) :
        /\ Len(muxRegs[m]) = 3
        /\ compare(muxRegs[m][1].p, muxRegs[m][2].p) < 0
        /\ compare(muxRegs[m][1].p, muxRegs[m][3].p) = 0
        /\ \A i \in 1..3 : \E q \in Probes : Routes(Env, m)[q].h = muxRegs[m][i].h

\* does Mux m of env hold the binding b
Holds(env, m, b) ==
    \E i \in 1..Len(env.muxes[m]) :
        LET ma == env.heap[env.muxes[m][i]]
        IN  /\ compare(ma.pat, b.p) = 0
            /\ IF b.method = <<>> THEN ma.allMethods = b.h
               ELSE hasMethod(env, ma, b.method) /\ env.maps[ma.byMethod][b.method] = b.h

\* does every binding Mux m of env holds come from bs
OnlyHolds(env, m, bs) ==
    \A i \in 1..Len(env.muxes[m]) :
        LET ma == env.heap[env.muxes[m][i]]
            mp == IF ma.byMethod = NilMap THEN EmptyMap ELSE env.maps[ma.byMethod]
        IN  /\ \A method \in DOMAIN mp :
                   \E j \in 1..Len(bs) :
                       bs[j].method = method /\ bs[j].h = mp[method] /\ compare(ma.pat, bs[j].p) = 0
            /\ ma.allMethods # NilH =>
                   \E j \in 1..Len(bs) :
                       bs[j].method = <<>> /\ bs[j].h = ma.allMethods /\ compare(ma.pat, bs[j].p) = 0

Reflects(env, m, bs) ==
    /\ \A j \in 1..Len(bs) : Holds(env, m, bs[j])
    /\ OnlyHolds(env, m, bs)

C4_Step ==
    /\ \A m \in 1..Len(muxes) : Routes(Env', m) = Routes(Env, m)
    /\ \A m \in 1..Len(muxes') : Reflects(Env', m, muxRegs'[m])

(* C4: a built Mux shares no state with the Builder.  No step (registration *)
(* of a new slot, a merge into an existing slot, another Build) changes the *)
(* response of an already built Mux to any probe, and after every step each *)
(* Mux holds exactly the bindings registered before its own Build.          *)
C4_BuildIndependent == [][C4_Step]_vars

\* two Muxes, the second built after a binding was merged into a slot the first
\* already had, and a probe the two answer differently
C4_Witness ==
    /\ Len(muxes) = 2
    /\ Len(muxRegs[1]) >= 1
    /\ Len(muxRegs[2]) > Len(muxRegs[1])
    /\ \E i \in 1..Len(muxRegs[1]), j \in (Len(muxRegs[1]) + 1)..Len(muxRegs[2]) :
           compare(muxRegs[2][i].p, muxRegs[2][j].p) = 0
    /\ Len(regs) > Len(muxRegs[2])
    /\ \E q \in Probes : Routes(Env, 1)[q].kind = "405" /\ Routes(Env, 2)[q].kind = "handler"

\* the (method, pattern) pairs a registration call binds, in order
Attempts(op, c) ==
    LET p == parsePattern(c.pat).p
    IN  IF op = "Handle" THEN <<[method |-> c.method, p |-> p]>>
        ELSE IF op = "Prefix" THEN <<[method |-> <<>>, p |-> [p EXCEPT !.opt = patWildcard]]>>
        ELSE <<[method |-> MethodGet, p |-> p], [method |-> MethodHead, p |-> p]>>

\* is the call well-formed: a handler, a pattern that parses, a mountable pattern
WellFormed(op, c) ==
    /\ parsePattern(c.pat).err = ""
    /\ op # "ServeFile" => c.h # NilH
    /\ op = "Prefix" => parsePattern(c.pat).p.opt \notin {patEmpty, patStar}

\* is one of the pairs of the call bound already: same method (or both the
\* catch-all) on a pattern of equal precedence
Clashes(op, c) ==
    \E i \in 1..Len(Attempts(op, c)), j \in 1..Len(regs) :
        /\ Attempts(op, c)[i].method = regs[j].method
        /\ compare(Attempts(op, c)[i].p, regs[j].p) = 0

-----------------------------------------------------------------------------
(* What a request asks for and which bindings answer it, read off the       *)
(* request and the patterns (not off the matchers).                         *)

\* the path ServeHTTP works on: the raw-encoded one when the request has one
RawPref(r) == IF r.rawpath # <<>> THEN r.rawpath ELSE r.path

\* the segments of a path: the pieces between its slashes; nothing follows a
\* final slash, and the empty path has none
Segments(pth) ==
    IF pth = <<>> \/ pth = <<"/">> THEN <<>>
    ELSE LET ps == Split(IF pth[1] = "/" THEN Tail(pth) ELSE pth, "/")
         IN  IF ps[Len(ps)] = <<>> THEN Take(ps, Len(ps) - 1) ELSE ps

Dotted(pth) == \E i \in 1..Len(Segments(pth)) : Segments(pth)[i] \in {<<>>, <<".">>, <<".", ".">>}

Canonical(r) == RawPref(r) # <<>> /\ ~Dotted(RawPref(r))

IsStar(r) == RawPref(r) = <<"*">>

EndsInSlash(r) == RawPref(r) # <<>> /\ RawPref(r)[Len(RawPref(r))] = "/"

\* the segments of the request, each percent-decoded once when taken from the raw path
Parts(r) ==
    LET segs == Segments(RawPref(r))
    IN  IF r.rawpath # <<>> THEN [i \in 1..Len(segs) |-> PathUnescape(segs[i]).s] ELSE segs

SegMatches(seg, part) ==
    IF ~seg.isParam THEN part = seg.s
    ELSE IF seg.ptyp = paramInt32 THEN ParseInt(part, 32).ok
    ELSE IF seg.ptyp = paramInt64 THEN ParseInt(part, 64).ok
    ELSE TRUE

PathMatches(p, r) ==
    IF p.opt = patEmpty THEN TRUE
    ELSE IF p.opt = patStar THEN IsStar(r)
    ELSE /\ ~IsStar(r)
         /\ Len(Parts(r)) >= Len(p.segs)
         /\ \A i \in 1..Len(p.segs) : SegMatches(p.segs[i], Parts(r)[i])
         /\ p.opt = patOther => Len(Parts(r)) = Len(p.segs) /\ ~EndsInSlash(r)
         /\ p.opt = patTrailingSlash => Len(Parts(r)) = Len(p.segs) /\ EndsInSlash(r)
         /\ p.opt = patWildcard => Len(Parts(r)) > Len(p.segs) \/ EndsInSlash(r)

\* the bindings of the Mux the request went to
Rules == muxRegs[req.mux]

PathMatchers == {j \in 1..Len(Rules) : PathMatches(Rules[j].p, req)}

FullMatchers == {j \in PathMatchers : Rules[j].method \in {req.method, <<>>}}

\* binding j comes first among the full matches: the higher precedence, and in
\* one slot the method's own binding before the catch-all
IsBest(j) ==
    /\ j \in FullMatchers
    /\ \A k \in FullMatchers :
           \/ compare(Rules[j].p, Rules[k].p) > 0
           \/ compare(Rules[j].p, Rules[k].p) = 0 /\ (Rules[j].method # <<>> \/ Rules[k].method = <<>>)

\* pth without its first n segments: what follows its first n segments, from the
\* slash on
RECURSIVE Stripped(_, _)
Stripped(pth, n) ==
    IF n = 0 THEN pth
    ELSE LET rest == Tail(pth)
         IN  Stripped(Drop(rest, Len(Split(rest, "/")[1])), n - 1)

-----------------------------------------------------------------------------
(* SpecDoc: the rules of the package documentation's routing example *)

MaxDocRegs == 5

MaxDocMuxes == 1

DocCalls ==
    { Call("GET", "/x/y", Fn("A")),
      Call("GET", "/x/:p:int32", Fn("B")),
      Call("GET", "/x/:p", Fn("C")),
      Call("GET", "/:p/y", Fn("D")),
      Call("", "/x/y", Fn("E")) }

DocRequests ==
    { Probe("GET", "/x/y"), Probe("GET", "/x/3"), Probe("GET", "/x/z"), Probe("GET", "/y/y"),
      Probe("POST", "/x/y"), Probe("GET", "/x/3000000000"), Probe("GET", "/x/%25%2f") }

NextDoc ==
    \/ Handle(DocCalls, MaxDocRegs)
    \/ BuildMux(MaxDocMuxes)
    \/ Serve(DocRequests)

SpecDoc == Init /\ [][NextDoc]_vars

Sent(method, target) == req.method = S(method) /\ req.target = S(target)

(* C1: a canonical request that some binding fully matches reaches the      *)
(* handler of the first full match in comparator order, the method's own    *)
(* binding before the catch-all of the same slot; and with exactly the five *)
(* rules of the documented example, GET /x/y reaches A, GET /x/3 reaches B, *)
(* GET /x/z reaches C, GET /y/y reaches D and POST /x/y reaches E.          *)
C1_MostSpecific ==
    req # NoReq /\ Canonical(req) =>
        /\ FullMatchers # {} =>
               /\ resp.kind = "handler"
               /\ \E j \in FullMatchers : IsBest(j) /\ resp.h = Rules[j].h
        /\ Len(Rules) = 5 =>
               /\ Sent("GET", "/x/y") => resp.h = Fn("A")
               /\ Sent("GET", "/x/3") => resp.h = Fn("B")
               /\ Sent("GET", "/x/z") => resp.h = Fn("C")
               /\ Sent("GET", "/y/y") => resp.h = Fn("D")
               /\ Sent("POST", "/x/y") => resp.h = Fn("E")

-----------------------------------------------------------------------------
(* SpecServe: typed parameters, a catch-all on a less specific slot, mounted *)
(* prefixes and a served file, asked with plain and raw-encoded paths.       *)

ServeCalls ==
    { Call("GET", "/x/:p:int32", Fn("i")),
      Call("POST", "/x/:p", Fn("s")),
      Call("", "/x/*", Fn("w")) }

ServeMounts == { Mount("/sub", Fn("m")), Mount("/sub/", Fn("n")), Mount("/sub/*", Fn("o")),
                 Mount("/sub/:a", Fn("k")) }

ServeFiles == { File("/sub", "f") }

ServeRequests ==
    { Probe("GET", "/x/1"), Probe("POST", "/x/1"), Probe("PUT", "/x/1"), Probe("PUT", "/x/a"),
      Probe("GET", "/x/1/"), Probe("GET", "/y"), Probe("GET", "*"),
      Probe("GET", "/sub/x/y"), Probe("GET", "/sub/"), Probe("POST", "/sub"),
      Probe("GET", "/sub/a%2Fb/c"), Probe("GET", "/sub/x/"), Probe("CONNECT", "/sub//x"),
      Probe("POST", "/x/%25%2f"), Probe("GET", "/sub/%25%2f") }

NextServe ==
    \/ Handle(ServeCalls, MaxRegs)
    \/ PrefixCall(ServeMounts, MaxRegs)
    \/ ServeFile(ServeFiles, MaxRegs)
    \/ BuildMux(MaxDocMuxes)
    \/ Serve(ServeRequests)

SpecServe == Init /\ [][NextServe]_vars

(* C2: for every canonical request, a handler is invoked exactly when some  *)
(* binding matches the path and covers the method (its own method, or the   *)
(* catch-all), even when a more specific slot matched the path only;        *)
(* otherwise the answer is 405 exactly when some binding matches the path,  *)
(* and 404 otherwise.                                                       *)
C2_HandlerOr405Or404 ==
    req # NoReq /\ Canonical(req) =>
        /\ resp.kind = "handler" <=> FullMatchers # {}
        /\ resp.kind = "405" <=> FullMatchers = {} /\ PathMatchers # {}
        /\ resp.kind = "404" <=> PathMatchers = {}

(* C6: every request ends in exactly one of: a handler invoked, a 404, a    *)
(* 405 with an Allow header, a 308 with a Location header; ServeHTTP never  *)
(* panics.                                                                  *)
C6_OneOutcomeNoPanic ==
    req # NoReq =>
        /\ resp.kind \in {"handler", "404", "405", "308"}
        /\ resp.kind = "handler" <=> resp.h # NilH
        /\ resp.kind = "405" <=> resp.allow # <<>>
        /\ resp.kind = "308" <=> resp.location # <<>>

\* the bindings Prefix made: the catch-all of a wildcard slot, the handler wrapped
\* to remove the pattern's segments
IsMount(b) == b.h.prefix

(* C10: a binding made by Prefix is the catch-all of a wildcard pattern     *)
(* whatever ending was written, so that a second Prefix on the same         *)
(* segments is refused; and a request whose first full match is a binding   *)
(* made by Prefix reaches its handler with the path of the request without  *)
(* the pattern's segments, starting with a slash: the raw path so           *)
(* shortened, and its decoding as the path, if the request has a raw path.  *)
C10_PrefixStrips ==
    /\ \A j \in 1..Len(regs) :
           IsMount(regs[j]) =>
               /\ regs[j].method = <<>>
               /\ regs[j].p.opt = patWildcard
               /\ regs[j].h.skip = Len(regs[j].p.segs)
               /\ \A c \in ServeMounts :
                      parsePattern(c.pat).p.segs = regs[j].p.segs => Prefix(Table, c.pat, c.h).err = "conflict"
    /\ req # NoReq =>
           \A j \in FullMatchers :
               IsBest(j) /\ IsMount(Rules[j]) =>
                   /\ resp.kind = "handler"
                   /\ resp.h = Rules[j].h
                   /\ req.rawpath = <<>> =>
                          /\ resp.path = Stripped(req.path, Len(Rules[j].p.segs))
                          /\ resp.rawpath = <<>>
                   /\ req.rawpath # <<>> =>
                          /\ resp.rawpath = Stripped(req.rawpath, Len(Rules[j].p.segs))
                          /\ resp.path = PathUnescape(resp.rawpath).s
                   /\ resp.path[1] = "/"

-----------------------------------------------------------------------------
(* SpecRedirect: targets made of empty, dot, dot-dot, plain and encoded     *)
(* segments, sent as GET and as CONNECT, and a client following redirects.  *)

SegVocab == Strings({"", ".", "..", "a", "%2e", "%25%2f"})

\* the targets of at most n segments over SegVocab; the first is the empty target
RECURSIVE TargetsOf(_)
TargetsOf(n) ==
    IF n = 0 THEN {<<>>}
    ELSE TargetsOf(n - 1) \cup {t \o <<"/">> \o seg : t \in TargetsOf(n - 1), seg \in SegVocab}

\* longer targets: those of TestRedirects and of the package documentation
LongTargets ==
    Strings({"*", "/x/../abc", "/x/./abc", "/a//b/c", "/a/b//c/", "//a/b/c//", "/%2fa//%61/c/",
             "/x//y", "/x/./y", "/x/y/z/..", "/a/./", "/a/../a/b"})

RedirectRequests ==
    {[method |-> method, target |-> t] :
        method \in {MethodGet, MethodConnect}, t \in TargetsOf(MaxSegs) \cup LongTargets}

RedirectCalls == { Call("", "/a/*", Fn("r")), Call("GET", "/", Fn("t")) }

NextRedirect ==
    \/ Handle(RedirectCalls, MaxRegs)
    \/ BuildMux(MaxDocMuxes)
    \/ Serve(RedirectRequests)
    \/ Follow

SpecRedirect == Init /\ [][NextRedirect]_vars

\* the pieces of a rooted path between its slashes, empty ones too
Pieces(pth) == Split(Tail(pth), "/")

\* the segments left of pieces once empty and dot pieces are dropped and each
\* dot-dot piece has taken back the segment before it, if there is one
RECURSIVE Resolve(_, _)
Resolve(pieces, kept) ==
    IF pieces = <<>> THEN kept
    ELSE IF pieces[1] \in {<<>>, <<".">>} THEN Resolve(Tail(pieces), kept)
    ELSE IF pieces[1] = <<".", ".">>
    THEN Resolve(Tail(pieces), IF kept = <<>> THEN kept ELSE Take(kept, Len(kept) - 1))
    ELSE Resolve(Tail(pieces), Append(kept, pieces[1]))

\* the lexically cleaned rooted path, its final slash kept unless it is the root
Cleaned(pth) ==
    LET kept == Resolve(Pieces(pth), <<>>)
    IN  IF kept = <<>> THEN <<"/">>
        ELSE <<"/">> \o Join(kept, <<"/">>) \o (IF pth[Len(pth)] = "/" THEN <<"/">> ELSE <<>>)

\* what the Mux that got req, and every other Mux built, answers to req
Redirects(m) ==
    LET r == ServeHTTP(Env, m, [method |-> req.method, path |-> req.path, rawpath |-> req.rawpath],
                       NilParams, <<>>)
    IN  [is308 |-> r.kind = "308", location |-> r.location]

(* C7 (as amended): a request is answered with a 308 exactly when its       *)
(* method is not CONNECT and its path, in raw-encoded form when it has one, *)
(* is empty or has a segment that is empty, "." or ".."; the Location is    *)
(* "/" for the empty path and else the lexically cleaned path, a final      *)
(* slash kept unless the cleaned path is the root; and every Mux, whatever  *)
(* its rules, decides the same.                                             *)
C7_RedirectIffDottedOrEmpty ==
    req # NoReq =>
        /\ resp.kind = "308" <=>
               req.method # MethodConnect /\ (RawPref(req) = <<>> \/ Dotted(RawPref(req)))
        /\ resp.kind = "308" =>
               resp.location = IF req.target = <<>> THEN <<"/">> ELSE Cleaned(req.target)
        /\ \A m \in 1..Len(muxes) :
               Redirects(m) = [is308 |-> resp.kind = "308", location |-> resp.location]

(* C7 (as stated): a request is answered with a 308 exactly when its method *)
(* is not CONNECT and its path, in raw-encoded form when it has one, has a  *)
(* segment that is empty, "." or "..".                                      *)
C7_RedirectIffDotted ==
    req # NoReq =>
        (resp.kind = "308" <=> req.method # MethodConnect /\ Dotted(RawPref(req)))

\* a raw-encoded path with encoded segments and an empty one, ending in a slash,
\* redirected by a Mux with rules to the cleaned raw path
C7_Witness ==
    /\ req.rawpath = S("/%2fa//%61/c/")
    /\ Len(muxRegs[req.mux]) = 2
    /\ resp.kind = "308"
    /\ resp.location = S("/%2fa/%61/c/")

(* C8 (as amended): a non-empty path without empty, "." or ".." segments is *)
(* never redirected; the target of every redirect is non-empty and without  *)
(* such segments; so the answer to a request the client made by following  *)
(* a redirect is never another redirect.                                    *)
C8_NoRedirectLoop ==
    /\ req # NoReq /\ RawPref(req) # <<>> /\ ~Dotted(RawPref(req)) => resp.kind # "308"
    /\ resp.kind = "308" => resp.location # <<>> /\ ~Dotted(resp.location)
    /\ resp.kind = "308" => hops = 0

(* C8 (as stated): a path without empty, "." or ".." segments is never      *)
(* redirected; the target of every redirect is without such segments; the   *)
(* answer to a request made by following a redirect is not a redirect.      *)
C8_CanonicalNeverRedirected ==
    /\ req # NoReq /\ ~Dotted(RawPref(req)) => resp.kind # "308"
    /\ resp.kind = "308" => ~Dotted(resp.location)
    /\ resp.kind = "308" => hops = 0

\* the client has followed the redirect it got for a path with a dot segment and
\* has its answer from a handler
C8_Witness ==
    /\ hops = 1
    /\ req.target = S("/a/")
    /\ resp.kind = "handler"

-----------------------------------------------------------------------------
(* SpecNested: a Mux built first and then given to the Builder as a handler, *)
(* mounted by Prefix and by Handle, under patterns that capture.             *)

NestedCalls ==
    { Call("GET", "/:a/:b", Fn("ab")),
      Call("GET", "/:b/*", Fn("bw")),
      Call("", "/:c/:a", MuxH(1)) }

NestedMounts == { Mount("/:a/:c", MuxH(1)), Mount("/:c", Fn("leaf")) }

NestedRequests ==
    { Probe("GET", "/1/2"), Probe("GET", "/1/2/3/4"), Probe("GET", "/1/2/3/4/5"),
      Probe("POST", "/1/2"), Probe("GET", "/1/2/x%2Fy/4") }

NextNested ==
    \/ Handle(NestedCalls, MaxRegs)
    \/ PrefixCall(NestedMounts, MaxRegs)
    \/ BuildMux(MaxMuxes)
    \/ Serve(NestedRequests)

SpecNested == Init /\ [][NextNested]_vars

Names(ps) == {ps[i].name : i \in 1..Len(ps)}

\* Params.get: the first param of that name
Lookup(ps, name) == ps[CHOOSE i \in 1..Len(ps) : ps[i].name = name /\ \A k \in 1..(i - 1) : ps[k].name # name]

\* the innermost Mux that handled req, what it captured (p) and what the request
\* carried from the Muxes around it (p0)
Innermost == resp.levels[Len(resp.levels)]

(* C9: when the handler was reached through a Mux nested in another and     *)
(* both captured, the Params it sees hold every name the inner rule         *)
(* captured with the inner value, every name only the outer rule captured   *)
(* with the outer value, no other name and no name twice; the wildcard is   *)
(* the inner one whenever the inner rule is a wildcard rule.                *)
C9_NestedParamsMerge ==
    resp.kind = "handler" /\ Len(resp.levels) >= 2 /\ ~Innermost.p.nil /\ ~Innermost.p0.nil =>
        LET inner == Innermost.p
            outer == Innermost.p0
            seen == resp.params
        IN  /\ Names(seen.ps) = Names(inner.ps) \cup Names(outer.ps)
            /\ \A n \in Names(inner.ps) : Lookup(seen.ps, n) = Lookup(inner.ps, n)
            /\ \A n \in Names(outer.ps) \ Names(inner.ps) : Lookup(seen.ps, n) = Lookup(outer.ps, n)
            /\ \A i, k \in 1..Len(seen.ps) : seen.ps[i].name = seen.ps[k].name => i = k
            /\ inner.hasWildcard => seen.hasWildcard /\ seen.wildcard = inner.wildcard

\* the inner rule captured a name the outer rule had captured with another value,
\* the outer rule captured a name of its own, and both captured a wildcard
C9_Witness ==
    /\ resp.kind = "handler"
    /\ Len(resp.levels) = 2
    /\ \E n \in Names(Innermost.p.ps) \cap Names(Innermost.p0.ps) :
           Lookup(Innermost.p.ps, n).val # Lookup(Innermost.p0.ps, n).val
    /\ Names(Innermost.p0.ps) \ Names(Innermost.p.ps) # {}
    /\ Innermost.p.hasWildcard
    /\ Innermost.p0.hasWildcard
    /\ Innermost.p.wildcard # Innermost.p0.wildcard

-----------------------------------------------------------------------------
(* SpecAllow: the rules of Test405, with a second, less specific slot that   *)
(* matches the same paths for another method.                                *)

MaxAllowRegs == 4

NextAllow ==
    \/ Handle({ Call("GET", "/x/y/:name", Fn("get")),
                Call("PUT", "/x/y/:name", Fn("put")),
                Call("DELETE", "/x/y/:name", Fn("delete")),
                Call("MYMETHOD", "/x/y/:name", Fn("mymethod")),
                Call("POST", "/x/:a/:b", Fn("post")),
                Call("GET", "/x", Fn("x")) }, MaxAllowRegs)
    \/ BuildMux(MaxDocMuxes)
    \/ Serve({ Probe("POST", "/x/y/z"), Probe("PATCH", "/x/y/z"),
               Probe("PUT", "/x"), Probe("PATCH", "/x/y/a%2Fb") })

SpecAllow == Init /\ [][NextAllow]_vars

\* the strings of a set as a list in ascending bytewise order
Ascending(set) ==
    CHOOSE s \in [1..Cardinality(set) -> set] :
        \A i \in 1..(Cardinality(set) - 1) : StrCompare(s[i], s[i + 1]) < 0

C12_AllowAllMatching ==
    req # NoReq /\ PathMatchers # {} /\ FullMatchers = {} =>
        /\ resp.kind = "405"
        /\ resp.allow = Join(Ascending({Rules[j].method : j \in PathMatchers}), S(", "))

-----------------------------------------------------------------------------
(* C13: a Builder never holds an all-methods binding and a later GET         *)
(* binding on patterns of equal precedence: once a pattern is registered    *)
(* for all methods, registering GET for it is refused.                      *)
C13_AllMethodsExcludesGet ==
    \A i, j \in 1..Len(regs) :
        i < j /\ regs[i].method = <<>> /\ regs[j].method = MethodGet
            => compare(regs[i].p, regs[j].p) # 0

-----------------------------------------------------------------------------
(* SpecPatterns: the rules and requests of TestSlashMatching, TestWildcard,  *)
(* TestSpecialPatterns and the escaped literals of TestPathEncoding.         *)

MaxPatRegs == 2

NextPatterns ==
    \/ Handle({ Call("GET", "/", Fn("root")),
                Call("GET", "/hello/", Fn("hello")),
                Call("GET", "/world", Fn("world")),
                Call("GET", "/wild/*", Fn("wild")),
                Call("GET", "/*", Fn("any")),
                Call("GET", "", Fn("empty")),
                Call("", "*", Fn("star")),
                Call("GET", "/%3afoo", Fn("colon")),
                Call("GET", "/%3aparam%3aint32/foo", Fn("fake")),
                Call("GET", "/a/%2a", Fn("asterisk")) }, MaxPatRegs)
    \/ BuildMux(MaxDocMuxes)
    \/ Serve({ Probe("GET", "/"), Probe("GET", "/hello"), Probe("GET", "/hello/"),
               Probe("GET", "/world"), Probe("GET", "/world/"), Probe("GET", "/wild"),
               Probe("GET", "/wild/"), Probe("GET", "/wild/a/b/c"), Probe("GET", "/a/b"),
               Probe("GET", "/wild/a%2fb/c"), Probe("GET", "/wild/x%2f%2541"),
               Probe("GET", "/wild/%25%2f"),
               Probe("OPTIONS", "*"), Probe("GET", "*"), Probe("OPTIONS", "/"),
               Probe("OPTIONS", "/*"), Probe("GET", "/*"),
               Probe("GET", "/:foo"), Probe("GET", "/%3afoo"), Probe("GET", "/foo"),
               Probe("GET", "/%3Afoo/"),
               Probe("GET", "/:param:int32/foo"), Probe("GET", "/%3Aparam%3Aint32/foo"),
               Probe("GET", "/5/foo"), Probe("GET", "/a/*"), Probe("GET", "/a/%2a"),
               Probe("GET", "/a/%252a") })

SpecPatterns == Init /\ [][NextPatterns]_vars

(* C14: a request that is not redirected is routed (handler or 405) exactly *)
(* when some pattern matches its path by its ending kind: a pattern ending  *)
(* in '/' only paths ending in '/', a pattern with no special ending only   *)
(* paths not ending in '/', both with as many segments as the pattern, and  *)
(* a wildcard pattern with k segments the paths with more than k segments   *)
(* or with k segments and a final '/'; the wildcard value handed to the     *)
(* handler is '/' followed by the unmatched segments joined by '/'.         *)
C14_MatchByEnding ==
    req # NoReq /\ resp.kind # "308" =>
        /\ resp.kind \in {"handler", "405"} <=> PathMatchers # {}
        /\ resp.kind = "404" <=> PathMatchers = {}
        /\ \A j \in 1..Len(Rules) :
               resp.kind = "handler" /\ resp.h = Rules[j].h /\ Rules[j].p.opt = patWildcard
                   => /\ resp.params.hasWildcard
                      /\ resp.params.wildcard =
                             <<"/">> \o Join(Drop(Parts(req), Len(Rules[j].p.segs)), <<"/">>)

------------------------------------------------------------------------------------------------------------------------------------------------(* C19: the empty pattern matches the path of every request, so with a     *)
(* rule on "" no request is answered 404; the pattern "*" matches the       *)
(* target "*" and no other ("/*" is not matched by it); for the target "*"  *)
(* a rule on "*" is served before a rule on ""; and a request whose path    *)
(* only the empty pattern matches, with a method not bound there, gets 405  *)
(* with the methods of the empty slot.                                      *)
C19_SpecialPatterns ==
    req # NoReq /\ resp.kind # "308" =>
        LET empties == {j \in 1..Len(Rules) : Rules[j].p.opt = patEmpty}
            stars == {j \in 1..Len(Rules) : Rules[j].p.opt = patStar}
            served(j) == resp.kind = "handler" /\ resp.h = Rules[j].h
            bound(j) == Rules[j].method \in {req.method, <<>>}
        IN  /\ empties # {} => resp.kind # "404"
            /\ \A j \in stars : served(j) => req.target = <<"*">>
            /\ req.target # <<"*">> /\ PathMatchers \subseteq stars => resp.kind = "404"
            /\ req.target = <<"*">> =>
                   /\ \A j \in stars : bound(j) => served(j)
                   /\ stars = {} /\ empties = {} => resp.kind = "404"
                   /\ \A j \in 1..Len(Rules) : served(j) => j \in stars \cup empties
            /\ PathMatchers # {} /\ PathMatchers \subseteq empties
                                 /\ (\A j \in empties : ~bound(j)) =>
                   /\ resp.kind = "405"
                   /\ resp.allow = Join(Ascending({Rules[j].method : j \in empties}), S(", "))

\* GET * with rules on "*" and on "": both match and GET is bound in both; the
\* rule on "*" is served
C19_Witness ==
    /\ req.target = <<"*">>
    /\ req.method = MethodGet
    /\ \E j, k \in 1..Len(Rules) :
           /\ Rules[j].p.opt = patStar
           /\ Rules[k].p.opt = patEmpty
    /\ resp.kind = "handler"
    /\ resp.h = Fn("star")

(* C20: a literal pattern segment is URL-escaped text: "/%3afoo",           *)
(* "/%3aparam%3aint32/foo" and "/a/%2a" compile to the literal segments     *)
(* ":foo", ":param:int32" "foo" and "a" "*", with no parameter and no       *)
(* wildcard, and their handlers serve exactly the GET requests whose        *)
(* segments are those.                                                      *)
C20_EscapedLiterals ==
    \A e \in { [pat |-> S("/%3afoo"), segs |-> <<S(":foo")>>],
               [pat |-> S("/%3aparam%3aint32/foo"), segs |-> <<S(":param:int32"), S("foo")>>],
               [pat |-> S("/a/%2a"), segs |-> <<S("a"), S("*")>>] } :
        /\ \A j \in 1..Len(regs) :
               regs[j].pat = e.pat =>
                   /\ regs[j].p.opt = patOther
                   /\ Len(regs[j].p.segs) = Len(e.segs)
                   /\ \A i \in 1..Len(e.segs) :
                          ~regs[j].p.segs[i].isParam /\ regs[j].p.segs[i].s = e.segs[i]
        /\ req # NoReq /\ resp.kind # "308" /\ req.method = MethodGet =>
               \A j \in 1..Len(Rules) :
                   Rules[j].pat = e.pat =>
                       ((resp.kind = "handler" /\ resp.h = Rules[j].h)
                            <=> (Parts(req) = e.segs /\ ~EndsInSlash(req) /\ ~IsStar(req)))

\* the request /:param:int32/foo served by the rule written /%3aparam%3aint32/foo
C20_Witness ==
    /\ req.target = S("/:param:int32/foo")
    /\ resp.kind = "handler"
    /\ resp.h = Fn("fake")

-----
(* SpecInts: the typed rules of TestParams with its boundary values, alone   *)
(* and in a Mux mounted by Prefix under a pattern that captures.             *)

NextInts ==
    \/ Handle({ Call("GET", "/:i:int32", Fn("i32")),
                Call("GET", "/:l:int64", Fn("i64")),
                Call("GET", "/:s", Fn("str")) }, MaxRegs)
    \/ PrefixCall({ Mount("/:o", MuxH(1)) }, MaxRegs)
    \/ BuildMux(MaxMuxes)
    \/ Serve({ Probe("GET", "/0"), Probe("GET", "/-1"), Probe("GET", "/+5"),
               Probe("GET", "/007"), Probe("GET", "/-0"), Probe("GET", "/1a"),
               Probe("GET", "/-"), Probe("GET", "/%35"), Probe("GET", "/%25z%7a"),
               Probe("GET", "/2147483647"), Probe("GET", "/2147483648"),
               Probe("GET", "/-2147483648"), Probe("GET", "/-2147483649"),
               Probe("GET", "/9223372036854775807"), Probe("GET", "/9223372036854775808"),
               Probe("GET", "/-9223372036854775808"), Probe("GET", "/-9223372036854775809"),
               Probe("GET", "/m/5"), Probe("GET", "/m/abc"), Probe("GET", "/m/2147483648"),
               Probe("GET", "/m/5/"), Probe("GET", "/m/") })

SpecInts == Init /\ [][NextInts]_vars

(* C15: among the GET rules made of one parameter, a request for a single   *)
(* segment reaches the int32 rule exactly when the segment is a base-10     *)
(* literal (digits after an optional '-', no '+') with a value in           *)
(* [-2^31, 2^31-1], else the int64 rule when the value is in                *)
(* [-2^63, 2^63-1], else the string rule; the integer handed to the handler *)
(* is the value of the segment.                                             *)
C15_IntParams ==
    req # NoReq /\ req.method = MethodGet /\ resp.kind # "308"
                /\ Len(Parts(req)) = 1 /\ ~EndsInSlash(req) =>
        LET part == Parts(req)[1]
            neg == part # <<>> /\ part[1] = "-"
            digits == IF neg THEN Tail(part) ELSE part
            literal == digits # <<>> /\ \A i \in 1..Len(digits) : digits[i] \in Digits
            mag == stripZeros(digits)
            fits(bits) ==
                literal /\ (IF neg THEN NumLeq(mag, cutoff(bits)) ELSE ~NumLeq(cutoff(bits), mag))
            value == IF neg /\ mag # <<"0">> THEN <<"-">> \o mag ELSE mag
            cands == {j \in 1..Len(Rules) :
                         /\ Rules[j].method = MethodGet
                         /\ Rules[j].p.opt = patOther
                         /\ Len(Rules[j].p.segs) = 1
                         /\ Rules[j].p.segs[1].isParam}
            typ(j) == Rules[j].p.segs[1].ptyp
            accepts(j) == IF typ(j) = paramInt32 THEN fits(32)
                          ELSE IF typ(j) = paramInt64 THEN fits(64) ELSE TRUE
            rank(j) == IF typ(j) = paramInt32 THEN 3 ELSE IF typ(j) = paramInt64 THEN 2 ELSE 1
            chosen == {j \in cands : accepts(j) /\ \A k \in cands : accepts(k) => rank(j) >= rank(k)}
        IN  \A j \in cands :
                /\ (resp.kind = "handler" /\ resp.h = Rules[j].h) <=> j \in chosen
                /\ j \in chosen /\ typ(j) # paramString =>
                       Int64(resp.params, Rules[j].p.segs[1].s) = [panic |-> FALSE, val |-> value]

-----
(* SpecParams: the raw paths of TestPathEncoding, and a CONNECT rule.        *)

NextParams ==
    \/ Handle({ Call("GET", "/:s", Fn("str")),
                Call("GET", "/abc/:foo/def", Fn("foo")),
                Call("GET", "/xyz/*", Fn("xyz")),
                Call("GET", "/%61%2f%62c/:foo/def", Fn("ab")),
                Call("CONNECT", "/:a/:b", Fn("conn")) }, MaxRegs)
    \/ BuildMux(MaxDocMuxes)
    \/ Serve({ Probe("GET", "/abc/x/def"), Probe("GET", "/abc/x%2f%79/def"),
               Probe("GET", "/abc/x%2f%2541/def"), Probe("GET", "/abc/%25%2f/def"),
               Probe("GET", "/abc%2fx/def"), Probe("GET", "/a%2fbc/x%2fy/def"),
               Probe("GET", "/a/bc/x/def"), Probe("GET", "/x%2fy"),
               Probe("GET", "/xyz/a%2f%62"), Probe("GET", "/xyz/a%2f%2541"),
               Probe("GET", "/xyz/a%2fb/"),
               Probe("CONNECT", "/a/b"), Probe("CONNECT", "//b"), Probe("GET", "//b") })

SpecParams == Init /\ [][NextParams]_vars

(* C16: a request with a raw path is routed on its raw segments, each        *)
(* percent-decoded once (the raw path is split at its slashes before any    *)
(* decoding), and every string parameter and the wildcard handed to the     *)
(* handler equal the single decoding of the raw segments they stand for.    *)
C16_DecodedOnce ==
    req # NoReq /\ req.rawpath # <<>> /\ resp.kind # "308" =>
        /\ resp.kind \in {"handler", "405"} <=> PathMatchers # {}
        /\ resp.kind = "404" <=> PathMatchers = {}
        /\ \A j \in 1..Len(Rules) :
               resp.kind = "handler" /\ resp.h = Rules[j].h =>
                   /\ \A i \in 1..Len(Rules[j].p.segs) :
                          Rules[j].p.segs[i].isParam /\ Rules[j].p.segs[i].ptyp = paramString
                              => Get(resp.params, Rules[j].p.segs[i].s) =
                                     [panic |-> FALSE, val |-> Parts(req)[i]]
                   /\ Rules[j].p.opt = patWildcard =>
                          Wildcard(resp.params) =
                              [panic |-> FALSE,
                               val |-> <<"/">> \o Join(Drop(Parts(req), Len(Rules[j].p.segs)), <<"/">>)]

(* C17: whatever the request method, every parameter the invoked handler    *)
(* can look up has a non-empty value.                                       *)
C17_GetNeverEmpty ==
    resp.kind = "handler" =>
        \A name \in Names(resp.params.ps) :
            /\ ~Get(resp.params, name).panic
            /\ Get(resp.params, name).val # <<>>

-----------------------------------------------------------------------------
(* SpecMalformed: one Handle call on each pattern text built from a leading *)
(* slash or none, one or two segments and an ending, as in                  *)
(* TestMalformedPattern.                                                    *)

MaxMalformedRegs == 1

\* the segments the texts are built from: literals, parameters with and without
\* a type, escapes, and the malformed segments of TestMalformedPattern
MalformedSegs ==
    Strings({ "a", ":x", ":y:int32", ":x:int64", "%7a", ":%78", "%3ax",
              "", ":", ":x:str", "a*", "%zz" })

MalformedTexts ==
    { <<>>, S("*"), S("/"), S("/*") } \cup
    { lead \o seg \o ending :
          lead \in { <<>>, S("/") },
          seg \in MalformedSegs \cup
                  { s1 \o S("/") \o s2 : s1 \in MalformedSegs, s2 \in MalformedSegs },
          ending \in { <<>>, S("/"), S("/*") } }

NextMalformed ==
    Handle({ [method |-> MethodGet, pat |-> t, h |-> Fn("h")] : t \in MalformedTexts },
           MaxMalformedRegs)

SpecMalformed == Init /\ [][NextMalformed]_vars

(* C21 as stated: a pattern text other than "" and "*" is accepted iff it   *)
(* begins with '/', contains no '//', contains '*' only as a final '/*',    *)
(* every parameter segment has a non-empty name and a type that is absent,  *)
(* string, int32 or int64, and no parameter name occurs twice; every other  *)
(* text is rejected with the error of one of its defects and no rule is     *)
(* added.                                                                   *)
C21_AcceptedIffWellFormed ==
    LET body(t) == IF HasSuffix(t, S("/*")) THEN Take(t, Len(t) - 2)
                   ELSE IF HasSuffix(t, S("/")) THEN Take(t, Len(t) - 1) ELSE t
        segsOf(t) == IF TrimPrefix(body(t), S("/")) = <<>> THEN <<>>
                     ELSE Split(TrimPrefix(body(t), S("/")), "/")
        isParam(g) == g # <<>> /\ g[1] = ":"
        name(g) == IF IndexByte(Tail(g), ":") < 0 THEN Tail(g)
                   ELSE Take(Tail(g), IndexByte(Tail(g), ":"))
        typeOk(g) == \/ IndexByte(Tail(g), ":") < 0
                     \/ Drop(Tail(g), IndexByte(Tail(g), ":") + 1)
                            \in Strings({"string", "int32", "int64"})
        defects(t) ==
            {"errPatternWithoutSlash" : x \in {1} \cap {IF t[1] # "/" THEN 1 ELSE 0}} \cup
            {"errPatternSlash" : x \in {1} \cap {IF Contains(t, S("//")) THEN 1 ELSE 0}} \cup
            {"errSegmentStar" : g \in {g \in Range(segsOf(t)) : "*" \in Range(g)}} \cup
            {"errEmptyParamName" :
                 g \in {g \in Range(segsOf(t)) : isParam(g) /\ name(g) = <<>>}} \cup
            {"unknown parameter type" :
                 g \in {g \in Range(segsOf(t)) : isParam(g) /\ ~typeOk(g)}} \cup
            {"duplicate parameter" :
                 i \in {i \in 1..Len(segsOf(t)) :
                            \E j \in 1..(i - 1) :
                                /\ isParam(segsOf(t)[i]) /\ isParam(segsOf(t)[j])
                                /\ name(segsOf(t)[i]) = name(segsOf(t)[j])}}
        valid(t) == t \in {<<>>, S("*")} \/ defects(t) = {}
        result(t) == handle(Table, MethodGet, t, Fn("h"))
    IN  /\ \A i \in 1..Len(regs) : valid(regs[i].pat)
        /\ \A t \in MalformedTexts :
               /\ result(t).err \in {"", "conflict"} <=> valid(t)
               /\ ~valid(t) => result(t).err \in defects(t) /\ result(t).st = Table

(* C21: a pattern text other than "" and "*" is accepted iff it begins with *)
(* '/', contains no '//', contains '*' only as a final '/*', every literal  *)
(* segment is a valid percent-encoding, every parameter segment has a       *)
(* non-empty name and a type that is absent, string, int32 or int64, and no *)
(* parameter name occurs twice; every other text is rejected with the error *)
(* of one of its defects (an invalid escape included) and no rule is added. *)
C21_AcceptedIffWellFormedAndEscaped ==
    LET body(t) == IF HasSuffix(t, S("/*")) THEN Take(t, Len(t) - 2)
                   ELSE IF HasSuffix(t, S("/")) THEN Take(t, Len(t) - 1) ELSE t
        segsOf(t) == IF TrimPrefix(body(t), S("/")) = <<>> THEN <<>>
                     ELSE Split(TrimPrefix(body(t), S("/")), "/")
        isParam(g) == g # <<>> /\ g[1] = ":"
        name(g) == IF IndexByte(Tail(g), ":") < 0 THEN Tail(g)
                   ELSE Take(Tail(g), IndexByte(Tail(g), ":"))
        typeOk(g) == \/ IndexByte(Tail(g), ":") < 0
                     \/ Drop(Tail(g), IndexByte(Tail(g), ":") + 1)
                            \in Strings({"string", "int32", "int64"})
        \* every % of the segment is followed by two hexadecimal digits
        escaped(g) == \A i \in 1..Len(g) :
                          g[i] = "%" => i + 2 <= Len(g) /\ ishex(g[i + 1]) /\ ishex(g[i + 2])
        defects(t) ==
            {"errPatternWithoutSlash" : x \in {1} \cap {IF t[1] # "/" THEN 1 ELSE 0}} \cup
            {"errPatternSlash" : x \in {1} \cap {IF Contains(t, S("//")) THEN 1 ELSE 0}} \cup
            {"errSegmentStar" : g \in {g \in Range(segsOf(t)) : "*" \in Range(g)}} \cup
            {"invalid URL escape" :
                 g \in {g \in Range(segsOf(t)) : ~isParam(g) /\ ~escaped(g)}} \cup
            {"errEmptyParamName" :
                 g \in {g \in Range(segsOf(t)) : isParam(g) /\ name(g) = <<>>}} \cup
            {"unknown parameter type" :
                 g \in {g \in Range(segsOf(t)) : isParam(g) /\ ~typeOk(g)}} \cup
            {"duplicate parameter" :
                 i \in {i \in 1..Len(segsOf(t)) :
                            \E j \in 1..(i - 1) :
                                /\ isParam(segsOf(t)[i]) /\ isParam(segsOf(t)[j])
                                /\ name(segsOf(t)[i]) = name(segsOf(t)[j])}}
        valid(t) == t \in {<<>>, S("*")} \/ defects(t) = {}
        result(t) == handle(Table, MethodGet, t, Fn("h"))
    IN  /\ \A i \in 1..Len(regs) : valid(regs[i].pat)
        /\ \A t \in MalformedTexts :
               /\ result(t).err \in {"", "conflict"} <=> valid(t)
               /\ ~valid(t) => result(t).err \in defects(t) /\ result(t).st = Table

\* a rule is registered, and texts with each kind of defect are refused on
\* top of it
C21_Witness ==
    /\ Len(regs) = 1
    /\ regs[1].pat = S("/:x/%7a/*")
    /\ \A e \in {"errPatternWithoutSlash", "errPatternSlash", "errSegmentStar",
                 "invalid URL escape", "errEmptyParamName", "unknown parameter type",
                 "duplicate parameter"} :
           \E t \in MalformedTexts : handle(Table, MethodGet, t, Fn("h")).err = e

-----------------------------------------------------------------------------
(* SpecRefused: registrations that are refused next to ones that are not:   *)
(* no handler, a malformed pattern, a method already bound.  b.Get(pat, nil) *)
(* is Handle("GET", pat, NilFunc).                                          *)

NextRefused ==
    \/ Handle({ Call("GET", "/x", NilH),
                Call("GET", "/x", NilFunc),
                Call("POST", "/x", NilFunc),
                Call("GET", "/x", Fn("a")),
                Call("HEAD", "/x", Fn("c")),
                Call("", "/y/:n", Fn("b")),
                Call("PUT", "/y/:n", NilFunc) }, MaxRegs)
    \/ PrefixCall({ Mount("/p", NilH), Mount("/p", Fn("p")) }, MaxRegs)
    \/ ServeFile({ File("/x", "f"), File("x", "f") }, MaxRegs)
    \/ BuildMux(MaxDocMuxes)
    \/ Serve({ Probe("GET", "/x"), Probe("POST", "/x"), Probe("PUT", "/y/1"),
               Probe("GET", "/y/1"), Probe("GET", "/p/q") })

SpecRefused == Init /\ [][NextRefused]_vars

(* C22: every registration refuses an absent handler (the nil Handler and   *)
(* the nil function given to Get, Post, Put, Delete or Head), so no rule of *)
(* the Builder or of a built Mux holds an absent handler, and serving a     *)
(* request never calls one.                                                 *)
C22_NoAbsentHandler ==
    LET absent(h) == h.k \in {"nil", "nilfunc"}
    IN  /\ \A h \in {NilH, NilFunc} :
               /\ handle(Table, MethodGet, S("/z"), h).err = "nil handler"
               /\ Prefix(Table, S("/z"), h).err = "nil handler"
        /\ \A i \in 1..Len(regs) : ~absent(regs[i].h)
        /\ \A m \in 1..Len(muxes) : \A i \in 1..Len(muxRegs[m]) : ~absent(muxRegs[m][i].h)
        /\ req # NoReq => resp.kind # "panic" /\ ~absent(resp.h)

-----------------------------------------------------------------------------
(* C24: after any sequence of Handle, Prefix and ServeFile calls, failed    *)
(* ones included, the Builder's slots are in strictly descending order of   *)
(* compare, so no two slots compare equal, and no method and no catch-all   *)
(* is bound twice in one slot.                                              *)
C24_SlotsStrictlyDescending ==
    /\ \A i \in 1..Len(bld) : \A j \in (i + 1)..Len(bld) :
           compare(heap[bld[i]].pat, heap[bld[j]].pat) > 0
    /\ \A i \in 1..Len(regs) : \A j \in (i + 1)..Len(regs) :
           regs[i].method = regs[j].method => compare(regs[i].p, regs[j].p) # 0
    /\ \A i \in 1..Len(regs) :
           \E k \in 1..Len(bld) :
               /\ compare(heap[bld[k]].pat, regs[i].p) = 0
               /\ IF regs[i].method = <<>> THEN heap[bld[k]].allMethods = regs[i].h
                  ELSE hasMethod(Table, heap[bld[k]], regs[i].method)

\* two slots, and a further call refused as a conflict
C24_Witness ==
    /\ Len(bld) = 2
    /\ Len(regs) = 2
    /\ last.err = "conflict"

-----------------------------------------------------------------------------
(* C25: compare is a total preorder on compiled patterns, the Empty and     *)
(* Star patterns and the wildcard patterns Prefix makes included: the sign  *)
(* of compare(a, b) is the opposite of the sign of compare(b, a), greater   *)
(* is transitive, equal is transitive, and compare(a, b) = 0 exactly when a *)
(* and b have the same kinds of segment, parameter types and literals       *)
(* position by position and the same ending, whatever the parameter names.  *)
C25_TotalPreorder ==
    LET compiled == { parsePattern(t).p :
                          t \in { t \in MalformedTexts : parsePattern(t).err = "" } }
        \* Builder.Prefix turns the ending of its pattern into a wildcard
        Pats == compiled \cup
                { [p EXCEPT !.opt = patWildcard] :
                      p \in { p \in compiled : p.opt \in {patOther, patTrailingSlash} } }
        sign(n) == IF n > 0 THEN 1 ELSE IF n < 0 THEN -1 ELSE 0
        same(a, b) ==
            /\ Len(a.segs) = Len(b.segs)
            /\ a.opt = b.opt
            /\ \A i \in 1..Len(a.segs) :
                   /\ a.segs[i].isParam = b.segs[i].isParam
                   /\ IF a.segs[i].isParam THEN a.segs[i].ptyp = b.segs[i].ptyp
                      ELSE a.segs[i].s = b.segs[i].s
    IN  \A k \in 1..Len(regs) :
            \A b \in Pats :
                /\ sign(compare(regs[k].p, b)) = -sign(compare(b, regs[k].p))
                /\ compare(regs[k].p, b) = 0 <=> same(regs[k].p, b)
                /\ \A c \in Pats :
                       /\ compare(regs[k].p, b) > 0 /\ compare(b, c) > 0
                              => compare(regs[k].p, c) > 0
                       /\ compare(b, regs[k].p) > 0 /\ compare(regs[k].p, c) > 0
                              => compare(b, c) > 0
                       /\ compare(regs[k].p, b) = 0 /\ compare(b, c) = 0
                              => compare(regs[k].p, c) = 0

\* a registered pattern with a parameter, equal in precedence to one written
\* with another name, above a pattern with a typed parameter in its place
C25_Witness ==
    /\ Len(regs) = 1
    /\ regs[1].pat = S("/a/:x/")
    /\ compare(regs[1].p, parsePattern(S("/a/:%78/")).p) = 0
    /\ compare(parsePattern(S("/a/:y:int32/")).p, regs[1].p) > 0
    /\ compare(regs[1].p, parsePattern(S("/a/:x/*")).p) > 0

-----------------------------------------------------------------------------
(* C26 as stated: of patterns with the same segments the one with no ending *)
(* is above the one ending in a slash, which is above the one ending in a   *)
(* wildcard ("/x" before "/x/" before "/x/*" in the route table); the Empty *)
(* pattern is below every other pattern.                                    *)
C26_ExactSlashWildcard ==
    LET rank(p) == IF p.opt = patOther THEN 3
                   ELSE IF p.opt = patTrailingSlash THEN 2 ELSE 1
        endings == {patOther, patTrailingSlash, patWildcard}
    IN  \A k \in 1..Len(regs) :
            \A t \in { t \in MalformedTexts : parsePattern(t).err = "" } :
                /\ (/\ parsePattern(t).p.segs = regs[k].p.segs
                    /\ parsePattern(t).p.opt \in endings /\ regs[k].p.opt \in endings
                    /\ rank(regs[k].p) > rank(parsePattern(t).p))
                       => compare(regs[k].p, parsePattern(t).p) > 0
                /\ (regs[k].p.opt # patEmpty /\ parsePattern(t).p.opt = patEmpty)
                       => compare(regs[k].p, parsePattern(t).p) > 0

(* C26: of patterns with the same segments the one ending in a slash is     *)
(* above the one ending in a wildcard, which is above the one with no       *)
(* ending ("/x/" before "/x/*" before "/x" in the route table); the Empty   *)
(* pattern is below every other pattern.                                    *)
C26_SlashWildcardExact ==
    LET rank(p) == IF p.opt = patTrailingSlash THEN 3
                   ELSE IF p.opt = patWildcard THEN 2 ELSE 1
        endings == {patOther, patTrailingSlash, patWildcard}
    IN  \A k \in 1..Len(regs) :
            \A t \in { t \in MalformedTexts : parsePattern(t).err = "" } :
                /\ (/\ parsePattern(t).p.segs = regs[k].p.segs
                    /\ parsePattern(t).p.opt \in endings /\ regs[k].p.opt \in endings
                    /\ rank(regs[k].p) > rank(parsePattern(t).p))
                       => compare(regs[k].p, parsePattern(t).p) > 0
                /\ (regs[k].p.opt # patEmpty /\ parsePattern(t).p.opt = patEmpty)
                       => compare(regs[k].p, parsePattern(t).p) > 0

\* the pattern "/a/*" is registered: it is below "/a/" and above "/a" and ""
C26_Witness ==
    /\ Len(regs) = 1
    /\ regs[1].pat = S("/a/*")
    /\ compare(parsePattern(S("/a/")).p, regs[1].p) > 0
    /\ compare(regs[1].p, parsePattern(S("/a")).p) > 0
    /\ compare(regs[1].p, parsePattern(<<>>).p) > 0

-----------------------------------------------------------------------------
-----------------------------------------------------------------------------
(* C28: a Handle, Prefix or ServeFile call that is refused (malformed       *)
(* pattern, no handler, conflict) leaves the route table of the Builder as  *)
(* it was before the call; ServeFile binds GET and HEAD of its pattern, or  *)
(* neither.                                                                 *)
C28_RefusedLeavesTable ==
    LET bound(st, method, pat) ==
            \E k \in 1..Len(st.ms) :
                /\ compare(st.heap[st.ms[k]].pat, parsePattern(pat).p) = 0
                /\ hasMethod(st, st.heap[st.ms[k]], method)
    IN  /\ \A c \in { Call("GET", "/x", NilH), Call("GET", "/x", Fn("a")),
                      Call("HEAD", "/x", Fn("c")), Call("", "/y/:n", Fn("b")),
                      Call("GET", "x", Fn("a")) } :
               handle(Table, c.method, c.pat, c.h).err # ""
                   => handle(Table, c.method, c.pat, c.h).st = Table
        /\ \A c \in { Mount("/p", NilH), Mount("/p", Fn("p")), Mount("", Fn("p")) } :
               Prefix(Table, c.pat, c.h).err # "" => Prefix(Table, c.pat, c.h).st = Table
        /\ \A c \in { File("/x", "f"), File("x", "f") } :
               /\ handleServeFile(Table, c.pat, c.name).err # ""
                      => handleServeFile(Table, c.pat, c.name).st = Table
               /\ handleServeFile(Table, c.pat, c.name).err = ""
                      => /\ bound(handleServeFile(Table, c.pat, c.name).st, MethodGet, c.pat)
                         /\ bound(handleServeFile(Table, c.pat, c.name).st, MethodHead, c.pat)
        /\ last.op = "ServeFile" =>
               (\E i \in 1..Len(regs) : regs[i].h.k = "file" /\ regs[i].method = MethodGet)
                   <=> (\E i \in 1..Len(regs) : regs[i].h.k = "file" /\ regs[i].method = MethodHead)

-----------------------------------------------------------------------------
(* C29: when a Mux calls the handler of a binding made by Handle, the       *)
(* Params it hands over hold every parameter name the pattern of that       *)
(* binding declares (Get of each of them returns), also when the binding    *)
(* shares its slot with one written with other names.                       *)
C29_DeclaredNamesPresent ==
    req # NoReq /\ resp.kind = "handler" =>
        LET \* the bindings of the Mux that called the handler
            rules == muxRegs[resp.levels[Len(resp.levels)].mux]
        IN  \A j \in 1..Len(rules) :
                /\ rules[j].h = resp.h
                /\ ~IsMount(rules[j])
                /\ rules[j].method \in {req.method, <<>>}
                => \A i \in 1..Len(rules[j].p.segs) :
                       rules[j].p.segs[i].isParam =>
                           ~Get(resp.params, rules[j].p.segs[i].s).panic

-----------------------------------------------------------------------------
(* C30: when the first full match of a request is a wildcard rule with k    *)
(* segments, the wildcard value handed to the handler is the path of the    *)
(* request without its first k segments, which is the path a handler        *)
(* mounted by Prefix on that pattern is called with, also when the path of  *)
(* the request ends with a slash (of a raw path the segments are removed    *)
(* and the rest decoded).                                                   *)
C30_WildcardIsStrippedPath ==
    req # NoReq /\ resp.kind = "handler" =>
        \A j \in FullMatchers :
            IsBest(j) /\ Rules[j].p.opt = patWildcard /\ resp.h = Rules[j].h =>
                /\ Wildcard(resp.params) =
                       [panic |-> FALSE,
                        val |-> IF req.rawpath = <<>>
                                THEN Stripped(req.path, Len(Rules[j].p.segs))
                                ELSE PathUnescape(Stripped(req.rawpath,
                                                           Len(Rules[j].p.segs))).s]
                /\ IsMount(Rules[j]) => Wildcard(resp.params).val = resp.path

-----------------------------------------------------------------------------
(* SpecConcurrent: goroutines serve requests on the built Muxes at the same *)
(* time, and the Builder goes on registering.  Mux.ServeHTTP is split where *)
(* it hands over to the next handler: Route is one Mux finding the handler  *)
(* (the reads of m.matchers and of the byMethod maps, and the writes to the *)
(* Params of the request), Invoke the call of that handler, which is the    *)
(* end of the request or the ServeHTTP of a nested Mux.                     *)

\* new(Params) in matcher.match replaced by one Params object kept for all
\* requests
newObject_reused(os) == 1

\* new(Params) in matcher.match: the address of a new object, os being the
\* objects there are
newObject(os) == Len(os) + 1

\* a goroutine starts serving a new request, one of Reqs, on a built Mux
Arrive(Reqs) ==
    \E i \in 1..MaxFlights, m \in 1..Len(muxes), q \in Reqs :
        /\ flights[i].pc = "idle"
        /\ ValidTarget(q.target)
        /\ flights' = [flights EXCEPT ![i] =
               [Idle EXCEPT !.pc = "serve", !.mux = m,
                            !.r = NewRequest(q.method, q.target),
                            !.top = [mux |-> m, method |-> q.method, target |-> q.target,
                                     path |-> NewRequest(q.method, q.target).path,
                                     rawpath |-> NewRequest(q.method, q.target).rawpath]]]
        /\ UNCHANGED <<heap, maps, bld, regs, muxes, muxRegs, last, req, resp, hops, objs>>

\* Mux.ServeHTTP of the Mux a goroutine is in, up to the call of the handler
\* found: the redirect, the 404 and the 405 end the request; the Params of the
\* match are merged into the Params the context already holds (an object of
\* this request), or become the Params of the context
Route ==
    \E i \in 1..MaxFlights :
        /\ flights[i].pc = "serve"
        /\ LET f == flights[i]
               raw == f.r.rawpath # <<>>
               ends(out) ==
                   /\ flights' = [flights EXCEPT ![i].pc = "done", ![i].out = out]
                   /\ objs' = objs
               moved(targ, d) ==
                   IF raw /\ d.err THEN ends([NoResp EXCEPT !.kind = "panic"])
                   ELSE ends([NoResp EXCEPT
                                  !.kind = "308",
                                  !.location =
                                      EscapedPath(IF raw THEN [path |-> d.s, rawpath |-> targ]
                                                  ELSE [path |-> targ, rawpath |-> <<>>])])
               routed(mr) ==
                   IF mr.panic THEN ends([NoResp EXCEPT !.kind = "panic"])
                   ELSE IF mr.h = NilH
                   THEN IF mr.allow # <<>>
                        THEN ends([NoResp EXCEPT !.kind = "405", !.allow = mr.allow])
                        ELSE ends([NoResp EXCEPT !.kind = "404"])
                   ELSE IF mr.p.nil
                   THEN /\ flights' = [flights EXCEPT ![i].pc = "call", ![i].h = mr.h]
                        /\ objs' = objs
                   ELSE IF f.p # 0
                   THEN /\ flights' = [flights EXCEPT ![i].pc = "call", ![i].h = mr.h]
                        /\ objs' = [objs EXCEPT ![f.p] = paramsMerge(@, mr.p)]
                   ELSE /\ flights' = [flights EXCEPT ![i].pc = "call", ![i].h = mr.h,
                                                      ![i].p = newObject(objs)]
                        /\ objs' = IF newObject(objs) \in 1..Len(objs)
                                    THEN [objs EXCEPT ![newObject(objs)] = mr.p]
                                    ELSE Append(objs, mr.p)
               canonical(rd) ==
                   IF rd.ok THEN moved(rd.targ, PathUnescape(rd.targ))
                   ELSE routed(handler(Env, muxes[f.mux], f.r.method,
                                       IF raw THEN f.r.rawpath ELSE f.r.path,
                                       [NoOpts EXCEPT !.reencode = raw]))
           IN  canonical(IF f.r.method = MethodConnect THEN [targ |-> <<>>, ok |-> FALSE]
                         ELSE shouldRedirect(IF raw THEN f.r.rawpath ELSE f.r.path))
        /\ UNCHANGED <<heap, maps, bld, regs, muxes, muxRegs, last, req, resp, hops>>

\* mr.h.ServeHTTP: a prefixHandler shortens the path of a copy of the request;
\* a nested Mux then serves it, any other handler ends it
Invoke ==
    \E i \in 1..MaxFlights :
        /\ flights[i].pc = "call"
        /\ LET f == flights[i]
               called(r1) ==
                   IF r1.panic \/ f.h.k = "nilfunc"
                   THEN [f EXCEPT !.pc = "done", !.out = [NoResp EXCEPT !.kind = "panic"]]
                   ELSE IF f.h.k = "mux"
                   THEN [f EXCEPT !.pc = "serve", !.mux = f.h.mux,
                                  !.r = [f.r EXCEPT !.path = r1.path, !.rawpath = r1.rawpath]]
                   ELSE [f EXCEPT !.pc = "done",
                                  !.out = [NoResp EXCEPT
                                               !.kind = "handler", !.h = f.h,
                                               !.params = IF f.p = 0 THEN NilParams
                                                          ELSE objs[f.p],
                                               !.path = r1.path, !.rawpath = r1.rawpath]]
           IN  flights' = [flights EXCEPT ![i] =
                   called(IF f.h.prefix THEN trimPrefix(f.r, f.h.skip)
                          ELSE [path |-> f.r.path, rawpath |-> f.r.rawpath, panic |-> FALSE])]
        /\ UNCHANGED <<heap, maps, bld, regs, muxes, muxRegs, last, req, resp, hops, objs>>

NextConcurrent ==
    \/ Handle({ Call("GET", "/:a", Fn("in")), Call("POST", "/:a", Fn("post")) }, MaxRegs)
    \/ PrefixCall({ Mount("/:b", MuxH(1)) }, MaxRegs)
    \/ BuildMux(MaxMuxes)
    \/ Arrive({ Probe("GET", "/1/2"), Probe("GET", "/7"), Probe("POST", "/7"),
                Probe("GET", "/1//2") })
    \/ Route
    \/ Invoke

SpecConcurrent == Init /\ [][NextConcurrent]_vars

(* C23: under every interleaving of the requests served concurrently, those *)
(* sent through nested Muxes included, and of the Builder's later           *)
(* registrations, every built Mux holds exactly the bindings it was built   *)
(* with, no Params object belongs to two requests, and the outcome of each  *)
(* finished request and the Params its handler was given are those of the   *)
(* request served alone.                                                    *)
C23_ConcurrentAsAlone ==
    /\ \A m \in 1..Len(muxes) : Reflects(Env, m, muxRegs[m])
    /\ \A i \in 1..MaxFlights : \A j \in 1..MaxFlights :
           i # j /\ flights[i].p # 0 => flights[i].p # flights[j].p
    /\ \A i \in 1..MaxFlights :
           flights[i].pc = "done" =>
               flights[i].out =
                   [ServeHTTP(Env, flights[i].top.mux,
                              NewRequest(flights[i].top.method, flights[i].top.target),
                              NilParams, <<>>) EXCEPT !.levels = <<>>]

\* two requests in flight at once, one inside a nested Mux with merged Params,
\* the other about to call its handler, after a registration made since the
\* last Build
C23_Witness ==
    /\ flights[1].pc = "done"
    /\ flights[1].top.mux = 2
    /\ Len(flights[1].out.params.ps) = 2
    /\ flights[2].pc = "call"
    /\ flights[2].p # 0
    /\ Len(regs) > Len(muxRegs[2])

====
